---- MODULE Spec2Model ----
(***************************************************************************)
(* Model of the AR Sandbox remote client: RemoteClient (handshake,         *)
(* quantized double buffers, intra/inter decoding, un-quantization into a  *)
(* triple buffer) and the parts of SandboxClient that drive it (the        *)
(* constructor, the I/O readiness callback of the network thread and the   *)
(* frame method of the consumer thread).                                   *)
(***************************************************************************)
EXTENDS Integers, Sequences, FiniteSets, TLC

(***************************************************************************)
(* Bounds of the model.                                                    *)
(***************************************************************************)
MaxUpdates == 2
\* The updates taken up where the main thread's first cycles are examined.
MaxEarlyUpdates == 1
\* How far beyond the extent of the grid a queried coordinate may lie, in
\* halves of a length unit.
MaxOutside == 2

(***************************************************************************)
(* Program constants.                                                      *)
(***************************************************************************)
TOKEN == 305419896
SWAPPED_TOKEN == 2018915346
PixelMax == 65535
PixelMod == PixelMax + 1
NumSlots == 3
NumQuantized == 2
ByteMod == 256

Grids == {"bathymetry", "waterLevel", "snowHeight"}
Slots == 0 .. (NumSlots - 1)

(***************************************************************************)
(* Byte order.  The client is taken to be a little-endian host; a value    *)
(* travels as four bytes in the sender's native order, and a read          *)
(* assembles them in host order, reversing them first when swap-on-read    *)
(* is enabled.                                                             *)
(***************************************************************************)
Reverse4(b) == <<b[4], b[3], b[2], b[1]>>

HostBytes(v) ==
  << v % ByteMod,
     (v \div ByteMod) % ByteMod,
     (v \div (ByteMod * ByteMod)) % ByteMod,
     (v \div (ByteMod * ByteMod * ByteMod)) % ByteMod >>

FromHostBytes(b) ==
  b[1] + ByteMod * (b[2] + ByteMod * (b[3] + ByteMod * b[4]))

\* What a server of the given byte order puts on the wire for a 32-bit value.
WireBytes(v, bigEndian) ==
  IF bigEndian THEN Reverse4(HostBytes(v)) ELSE HostBytes(v)

\* pipe->read<Misc::UInt32>() with the pipe's current swap-on-read setting.
Read32(b, swap) ==
  FromHostBytes(IF swap THEN Reverse4(b) ELSE b)

(***************************************************************************)
(* The servers the client may meet: a well-behaved one of either byte      *)
(* order, or one that answers the handshake with something else.           *)
(***************************************************************************)
\* Geometries a server may announce: grid size, cell size, elevation range.
Geometries ==
  { [gridSize |-> <<2, 2>>, cellSize |-> <<1, 1>>, elevationRange |-> <<0, 10>>],
    [gridSize |-> <<3, 2>>, cellSize |-> <<1, 2>>, elevationRange |-> <<1, 10>>] }

\* The pixel value filling the bathymetry, water level and snow height grid
\* of the initial frame.
InitialFrames ==
  { [bathymetry |-> 0, waterLevel |-> PixelMax, snowHeight |-> 0],
    [bathymetry |-> PixelMax, waterLevel |-> 0, snowHeight |-> PixelMax] }

\* The per-grid difference patterns of an update message: everything moves,
\* or the terrain is static and only water and snow change.
UpdateFrames ==
  { [bathymetry |-> 1, waterLevel |-> 1, snowHeight |-> 1],
    [bathymetry |-> 0, waterLevel |-> 1, snowHeight |-> 0] }

NoUpdate == [bathymetry |-> 0, waterLevel |-> 0, snowHeight |-> 0]

GarbageReplies == { <<0, 0, 0, 0>>, <<121, 86, 52, 18>> }

NativeServers ==
  { [ reply |-> WireBytes(TOKEN, e), bigEndian |-> e, geometry |-> geo,
      initial |-> f ] :
      e \in BOOLEAN, geo \in Geometries, f \in InitialFrames }

GarbageServers ==
  { [ reply |-> r, bigEndian |-> FALSE,
      geometry |-> [gridSize |-> <<2, 2>>, cellSize |-> <<1, 1>>,
                    elevationRange |-> <<0, 10>>],
      initial |-> [bathymetry |-> 0, waterLevel |-> PixelMax, snowHeight |-> 0] ] :
      r \in GarbageReplies }

Servers == NativeServers \cup GarbageServers

TokenReply(srv) == srv.reply

Volume(size) == size[1] * size[2]

(***************************************************************************)
(* Quantized grids and the frames that carry them.                         *)
(***************************************************************************)
\* An array returned by new[] and not yet written.
Indeterminate == 0 - 1
FreshArray(n) == [i \in 1 .. n |-> Indeterminate]

\* The grid an intra-coded frame carries.
IntraGrid(seed, n) == [i \in 1 .. n |-> seed]

\* The per-pixel differences an inter-coded frame carries.
DeltaGrid(seed, n) == [i \in 1 .. n |-> (seed * i) % PixelMod]

\* The intra-frame encoder of the server.  Each pixel is predicted by its
\* predecessor in scan order (0 for the first) and the residual, taken in
\* 16-bit unsigned arithmetic, is the symbol.  The frame carries the symbol
\* count, the table of the symbols that occur, from which the prefix code is
\* rebuilt, and one code per pixel; a code is represented by the rank of its
\* symbol in the table, the packing into bits is not modelled.
IntraEncode(grid) ==
  LET n == Len(grid)
      residual == [i \in 1 .. n |->
                     (grid[i] + PixelMod - (IF i = 1 THEN 0 ELSE grid[i - 1])) % PixelMod]
      alphabet == {residual[i] : i \in 1 .. n}
      Rank(s) == Cardinality({t \in alphabet : t < s}) + 1
  IN  [ count |-> n,
        table |-> [k \in 1 .. Cardinality(alphabet) |->
                     CHOOSE s \in alphabet : Rank(s) = k],
        codes |-> [i \in 1 .. n |-> Rank(residual[i])] ]

\* Faulty variant: the decoder adds the residuals without wrapping to 16 bits.
IntraDecodeNoWrap(frame) ==
  LET symbol == [i \in 1 .. frame.count |-> frame.table[frame.codes[i]]]
      pixel[i \in 1 .. frame.count] ==
        IF i = 1 THEN symbol[1] ELSE pixel[i - 1] + symbol[i]
  IN  pixel

\* IntraFrameDecompressor::decompressFrame: each code is looked up in the
\* table and the residual added to the predecessor of the pixel, in 16-bit
\* unsigned arithmetic.
IntraDecode(frame) ==
  LET symbol == [i \in 1 .. frame.count |-> frame.table[frame.codes[i]]]
      pixel[i \in 1 .. frame.count] ==
        IF i = 1 THEN symbol[1] % PixelMod
        ELSE (pixel[i - 1] + symbol[i]) % PixelMod
  IN  pixel

\* The inter-frame encoder of the server: the per-pixel difference between
\* the current and the previous grid, in 16-bit unsigned arithmetic.  The
\* entropy coding of the differences is not modelled.
InterEncode(prev, curr) ==
  [i \in 1 .. Len(curr) |-> (curr[i] + PixelMod - prev[i]) % PixelMod]

\* Faulty variant: the decoder adds the differences without wrapping to 16 bits.
InterDecodeNoWrap(prev, delta) ==
  [i \in 1 .. Len(prev) |-> prev[i] + delta[i]]

\* InterFrameDecompressor::decompressFrame: previous grid plus differences,
\* in 16-bit unsigned arithmetic.
InterDecode(prev, delta) ==
  [i \in 1 .. Len(prev) |-> (prev[i] + delta[i]) % PixelMod]

\* The pixel counts after which a failing decode may have stopped writing.
FailPoints(n) == {0, 1}

\* A decode that fails after writing the first k pixels of its output.
PartialDecode(old, decoded, k) ==
  [i \in 1 .. Len(old) |-> IF i <= k THEN decoded[i] ELSE old[i]]

VARIABLES
  server,          \* the server on the other end of the pipe
  mainPc,          \* position of the main (consumer) thread
  netPc,           \* position of the network thread
  pipe,            \* RemoteClient::pipe: "null", "open" or "deleted"
  swapOnRead,      \* the pipe's swap-on-read setting
  token,           \* the handshake token as read, 0 before it is read
  gridSize, cellSize, bathymetrySize, elevationRange,
  live,            \* heap arrays currently allocated
  bathymetry, waterLevel, snowHeight,   \* the pairs of quantized buffers
  currentBuffer, newBuffer,
  buffer,          \* TripleBuffer::buffer, the three GridBuffers
  lockedIndex, mostRecentIndex, nextIndex,
  connected, listener, gridVersion,
  textureVersion,  \* DataItem::textureVersion of the rendering context
  ctorError,       \* "none", or the exception that left the constructor
  updates,         \* update messages the readiness callback has taken up
  update,          \* the update message being decoded
  calc,            \* the spatial query evaluated last
  codec,           \* a grid on its way through encoder and decoder
  readers,         \* further threads that lock and read the grids
  sent,            \* update messages sent, where sending is a step of its own
  hist             \* history of the run, read by no action's guard

vars ==
  << server, mainPc, netPc, pipe, swapOnRead, token, gridSize, cellSize,
     bathymetrySize, elevationRange, live, bathymetry, waterLevel, snowHeight,
     currentBuffer, newBuffer, buffer, lockedIndex, mostRecentIndex, nextIndex,
     connected, listener, gridVersion, textureVersion, ctorError, updates,
     update, calc, codec, readers, sent, hist >>

(***************************************************************************)
(* Threads::TripleBuffer<GridBuffers>.                                     *)
(***************************************************************************)
\* Faulty variant: the slot after the most recent one is taken, locked or not.
StartNewValueIgnoresLocked(locked, mostRecent) ==
  (mostRecent + 1) % NumSlots

\* startNewValue: a slot that is neither locked nor the most recent one.
StartNewValue(locked, mostRecent) ==
  LET n == (locked + 1) % NumSlots
  IN  IF n = mostRecent THEN (n + 1) % NumSlots ELSE n

\* Faulty variant: the most recent slot is locked but always reported as new.
LockNewValueAlwaysNew(locked, mostRecent) ==
  [index |-> mostRecent, isNew |-> TRUE]

\* lockNewValue: the slot to lock and whether it is a new one.
LockNewValue(locked, mostRecent) ==
  [index |-> mostRecent, isNew |-> mostRecent # locked]

(***************************************************************************)
(* RemoteClient::unquantizeGrids.  Values are kept as exact multiples of   *)
(* 1/65535, i.e. a stored number v stands for the elevation v / 65535.     *)
(***************************************************************************)
\* Faulty variant: the offset is taken from the upper end of the range.
UnquantizeFromMax(pixels, range) ==
  [i \in 1 .. Len(pixels) |-> pixels[i] * (range[2] - range[1]) + PixelMax * range[2]]

Unquantize(pixels, range) ==
  [i \in 1 .. Len(pixels) |-> pixels[i] * (range[2] - range[1]) + PixelMax * range[1]]

\* The quantized grid un-quantized into grid g of a slot.
QuantizedSource(g, b, w, s, cur) ==
  CASE g = "bathymetry" -> b[cur]
    [] g = "waterLevel" -> w[cur]
    [] g = "snowHeight" -> s[cur]

\* The three loops of unquantizeGrids run to completion.
UnquantizeAll(b, w, s, cur, range) ==
  [g \in Grids |-> Unquantize(QuantizedSource(g, b, w, s, cur), range)]

(***************************************************************************)
(* Heap arrays, in the order the constructor allocates them.               *)
(***************************************************************************)
AllocOrder ==
  << "bathymetry0", "waterLevel0", "snowHeight0",
     "bathymetry1", "waterLevel1", "snowHeight1",
     "grids0.bathymetry", "grids0.waterLevel", "grids0.snowHeight",
     "grids1.bathymetry", "grids1.waterLevel", "grids1.snowHeight",
     "grids2.bathymetry", "grids2.waterLevel", "grids2.snowHeight" >>

QuantizedArrays == { AllocOrder[i] : i \in 1 .. (3 * NumQuantized) }
SlotArrays == { AllocOrder[i] : i \in (3 * NumQuantized + 1) .. Len(AllocOrder) }
FirstAllocated(k) == { AllocOrder[i] : i \in 1 .. k }

NoGrid == <<>>
EmptySlot == [g \in Grids |-> NoGrid]

(***************************************************************************)
(* The spatial queries RemoteClient::calcBathymetry, calcWaterLevel and     *)
(* calcSnowHeight.  A coordinate is a record: n is twice the coordinate    *)
(* (so positions are exact multiples of one half), and far marks a         *)
(* coordinate so far to the right that x/cellSize is beyond the range of   *)
(* int.  All arithmetic is exact: on an axis with cell size c, offsets and *)
(* weights are numerators over 2c, and a result is a numerator over        *)
(* 4 * cellSize[0] * cellSize[1] (times the 65535 of un-quantization).     *)
(***************************************************************************)
IntMax == 2147483647
IntMin == 0 - IntMax - 1

\* Math::clamp.
Clamp(v, min, max) ==
  IF v < min THEN min ELSE IF v > max THEN max ELSE v

\* What int(Math::floor(dx)) may yield when the value does not fit into an
\* int: the conversion is undefined; builds produce the smallest int
\* (x86's "integer indefinite") or saturate.
ConversionOutcomes == {IntMin, IntMax}

\* The grid size a query works with.
QuerySize(fn) == IF fn = "bathymetry" THEN bathymetrySize ELSE gridSize

\* Faulty variant: the bathymetry grid is treated as cell-centered.
CellOffsetCentred(fn, c) == c

\* Faulty variant: every grid is treated as vertex-centered.
CellOffsetVertex(fn, c) == 2 * c

\* The term subtracted from x/cellSize, as a numerator over 2c: 1 for the
\* vertex-centered bathymetry grid, 0.5 for the cell-centered grids.
CellOffset(fn, c) == IF fn = "bathymetry" THEN 2 * c ELSE c

\* Lines 225-227 (and their five repetitions): the grid coordinate, the cell
\* index and the interpolation weight of one axis.
AxisCell(fn, p, c, dim, conv) ==
  LET den == 2 * c
      num == p.n - CellOffset(fn, c)
      fl == IF p.far THEN conv ELSE num \div den
      g == Clamp(fl, 0, dim - 2)
      w == IF p.far THEN den ELSE Clamp(num - g * den, 0, den)
  IN  [g |-> g, w |-> w, den |-> den, d |-> num]

\* The four array offsets a query reads: cell[0], cell[1], and the same
\* two after cell += width.
Stencil(gx, gy, width) ==
  LET base == gy * width + gx
  IN  <<base, base + 1, base + width, base + width + 1>>

\* Lines 236-239: the bilinear blend.
Blend(c00, c10, c01, c11, ax, ay) ==
  LET b0 == c00 * (ax.den - ax.w) + c10 * ax.w
      b1 == c01 * (ax.den - ax.w) + c11 * ax.w
  IN  b0 * (ay.den - ay.w) + b1 * ay.w

\* One query of grid fn of the locked slot at (x, y).
Calc(fn, grid, x, y, convx, convy) ==
  LET size == QuerySize(fn)
      ax == AxisCell(fn, x, cellSize[1], size[1], convx)
      ay == AxisCell(fn, y, cellSize[2], size[2], convy)
      st == Stencil(ax.g, ay.g, size[1])
      inside == \A i \in 1 .. 4 : st[i] >= 0 /\ st[i] < Len(grid)
  IN  [ fn |-> fn, x |-> x, y |-> y, gx |-> ax.g, gy |-> ay.g,
        wx |-> ax.w, wy |-> ay.w, dx |-> ax.d, dy |-> ay.d,
        reads |-> {st[i] : i \in 1 .. 4},
        inside |-> inside,
        value |-> IF inside
                    THEN Blend(grid[st[1] + 1], grid[st[2] + 1],
                               grid[st[3] + 1], grid[st[4] + 1], ax, ay)
                    ELSE Indeterminate ]

\* RemoteClient::getDomain and getBathymetryDomain along one axis, as
\* coordinates: the interval on which the grid can be evaluated.
DomainMin(fn, axis) ==
  IF fn = "bathymetry" THEN 2 * cellSize[axis] ELSE cellSize[axis]

DomainMax(fn, axis) ==
  IF fn = "bathymetry"
    THEN 2 * bathymetrySize[axis] * cellSize[axis]
    ELSE (2 * gridSize[axis] - 1) * cellSize[axis]

\* No spatial query has been evaluated yet.
NoCalc == [fn |-> "none"]

\* No grid is on its way through the codec.
NoCodec == [op |-> "none"]

\* What the server has sent of the update stream: the update messages, and
\* the readiness events the dispatcher has raised for them.
NoneSent == [triplets |-> 0, events |-> 0]


\* Threads, other than the main thread, that use the RemoteClient as a
\* reader: each calls lockNewGrids and then reads the three locked grids.
Readers == {"readerA", "readerB"}

\* A reader that has not locked yet: its position, the slot it locked last,
\* the publishes it has read from since its own last lock, and those it has
\* read from since the last lock of any reader.
InitReaders ==
  [r \in Readers |-> [pc |-> "lock", slot |-> 0, seen |-> {}, seenSinceAnyLock |-> {}]]

(***************************************************************************)
(* History variables.                                                      *)
(***************************************************************************)
InitHist ==
  [ pubCount        |-> 0,
    tag             |-> [s \in Slots |-> [g \in Grids |-> 0]],
    seen            |-> {},
    postedSinceLock |-> FALSE,
    lockResult      |-> "none",
    readsAfterToken |-> 0,
    lastDecoded     |-> [g \in Grids |-> NoGrid],
    handedPrev      |-> [g \in Grids |-> NoGrid],
    expectedPrev    |-> [g \in Grids |-> NoGrid],
    decoded         |-> <<>>,
    flips           |-> 0,
    posts           |-> 0,
    outcome         |-> "none",
    snap            |-> [ currentBuffer |-> 0, bathymetry |-> NoGrid,
                          waterLevel |-> NoGrid, snowHeight |-> NoGrid,
                          mostRecentIndex |-> 0,
                          buffer |-> [s \in Slots |-> EmptySlot] ],
    checkedAfterDisconnect |-> FALSE,
    sendFailed      |-> FALSE,
    sendsAfterFail  |-> 0,
    tokenRead       |-> FALSE,
    lastPosted      |-> 0,
    stoppedBusy     |-> FALSE,
    intra           |-> [g \in Grids |-> 0],
    inter           |-> [g \in Grids |-> 0] ]

InitClient ==
  /\ server \in Servers
  /\ mainPc = "connect"
  /\ netPc = "idle"
  /\ pipe = "null"
  /\ swapOnRead = FALSE
  /\ token = 0
  /\ gridSize = <<0, 0>>
  /\ cellSize = <<0, 0>>
  /\ bathymetrySize = <<0, 0>>
  /\ elevationRange = <<0, 0>>
  /\ live = {}
  /\ bathymetry = [i \in 0 .. (NumQuantized - 1) |-> NoGrid]
  /\ waterLevel = [i \in 0 .. (NumQuantized - 1) |-> NoGrid]
  /\ snowHeight = [i \in 0 .. (NumQuantized - 1) |-> NoGrid]
  /\ currentBuffer = 0
  /\ newBuffer = 0
  /\ buffer = [s \in Slots |-> EmptySlot]
  /\ lockedIndex = 0
  /\ mostRecentIndex = 0
  /\ nextIndex = 0
  /\ connected = FALSE
  /\ listener = FALSE
  /\ gridVersion = 0
  /\ textureVersion = 0
  /\ ctorError = "none"
  /\ updates = 0
  /\ update = NoUpdate
  /\ readers = InitReaders
  /\ sent = NoneSent
  /\ hist = InitHist

Init ==
  /\ InitClient
  /\ calc = NoCalc
  /\ codec = NoCodec

(***************************************************************************)
(* RemoteClient::RemoteClient, run by the main thread inside               *)
(* SandboxClient::SandboxClient.                                           *)
(***************************************************************************)
\* An exception leaves the constructor.  A std::runtime_error passes through
\* the catch block, which deletes the pipe and the quantized buffers; any
\* other exception bypasses it.  In both cases the already constructed member
\* grids is destroyed, and ~GridBuffers releases the slots' arrays.
\* SandboxClient's own handler only re-words a std::runtime_error: connected
\* keeps its initial value and the listener is never added.
CtorThrow(kind, pipeNow, liveNow) ==
  /\ mainPc' = "failed"
  /\ ctorError' = kind
  /\ IF kind = "runtime_error"
       THEN /\ pipe' = (IF pipeNow = "open" THEN "deleted" ELSE pipeNow)
            /\ live' = {}
       ELSE /\ pipe' = pipeNow
            /\ live' = liveNow \ SlotArrays

\* Faulty variant: a token that is neither form of the expected one is accepted.
HandshakeResultLax(t) ==
  IF t = SWAPPED_TOKEN THEN "swap" ELSE "same"

\* Lines 116-119: what the constructor makes of the token it read.
HandshakeResult(t) ==
  IF t = SWAPPED_TOKEN THEN "swap"
  ELSE IF t # TOKEN THEN "invalid"
  ELSE "same"

\* Faulty variant: the readiness listener is registered as soon as the pipe
\* is open, while the constructor still reads from it.
ConnectListensEarly ==
  /\ mainPc = "connect"
  /\ \/ /\ CtorThrow("runtime_error", "null", live)
        /\ UNCHANGED listener
     \/ /\ CtorThrow("runtime_error", "open", live)
        /\ UNCHANGED listener
     \/ /\ pipe' = "open"
        /\ mainPc' = "token"
        /\ listener' = TRUE
        /\ UNCHANGED <<ctorError, live>>
  /\ UNCHANGED << sent, readers, codec, calc, server, netPc, swapOnRead, token, gridSize, cellSize,
                  bathymetrySize, elevationRange, bathymetry, waterLevel,
                  snowHeight, currentBuffer, newBuffer, buffer, lockedIndex,
                  mostRecentIndex, nextIndex, connected,
                  gridVersion, updates, hist, textureVersion, update >>

Connect ==
  /\ mainPc = "connect"
  /\ \/ \* TCPPipe's constructor throws: connection refused
        /\ CtorThrow("runtime_error", "null", live)
     \/ \* connected, but writing or flushing the token fails
        /\ CtorThrow("runtime_error", "open", live)
     \/ /\ pipe' = "open"
        /\ mainPc' = "token"
        /\ UNCHANGED <<ctorError, live>>
  /\ UNCHANGED << sent, readers, codec, calc, server, netPc, swapOnRead, token, gridSize, cellSize,
                  bathymetrySize, elevationRange, bathymetry, waterLevel,
                  snowHeight, currentBuffer, newBuffer, buffer, lockedIndex,
                  mostRecentIndex, nextIndex, connected, listener,
                  gridVersion, updates, hist, textureVersion, update >>

ReadToken ==
  /\ mainPc = "token"
  /\ \/ \* the read fails
        /\ CtorThrow("runtime_error", pipe, live)
        /\ UNCHANGED <<token, swapOnRead, hist>>
     \/ LET t == Read32(TokenReply(server), swapOnRead)
            r == HandshakeResult(t)
        IN  /\ token' = t
            /\ hist' = [hist EXCEPT !.tokenRead = TRUE]
            /\ swapOnRead' = (IF r = "swap" THEN TRUE ELSE swapOnRead)
            /\ IF r = "invalid"
                 THEN CtorThrow("runtime_error", pipe, live)
                 ELSE /\ mainPc' = "geometry"
                      /\ UNCHANGED <<ctorError, pipe, live>>
  /\ UNCHANGED << sent, readers, codec, calc, server, netPc, gridSize, cellSize, bathymetrySize,
                  elevationRange, bathymetry, waterLevel, snowHeight,
                  currentBuffer, newBuffer, buffer, lockedIndex,
                  mostRecentIndex, nextIndex, connected, listener,
                  gridVersion, updates, textureVersion, update >>

\* One 32-bit field as the server sends it and the client reads it.
Receive32(v) == Read32(WireBytes(v, server.bigEndian), swapOnRead)

\* Faulty variant: the bathymetry grid is given the size of the other grids.
ReadGeometrySameSize ==
  /\ mainPc = "geometry"
  /\ \/ /\ CtorThrow("runtime_error", pipe, live)
        /\ UNCHANGED <<gridSize, cellSize, bathymetrySize, elevationRange>>
        /\ hist' = [hist EXCEPT !.readsAfterToken = 1]
     \/ LET geo == server.geometry
            gs == <<Receive32(geo.gridSize[1]), Receive32(geo.gridSize[2])>>
        IN  /\ gridSize' = gs
            /\ cellSize' = <<Receive32(geo.cellSize[1]), Receive32(geo.cellSize[2])>>
            /\ bathymetrySize' = gs
            /\ elevationRange' = << Receive32(geo.elevationRange[1]),
                                    Receive32(geo.elevationRange[2]) >>
            /\ mainPc' = "alloc"
            /\ hist' = [hist EXCEPT !.readsAfterToken = 1]
            /\ UNCHANGED <<ctorError, pipe, live>>
  /\ UNCHANGED << sent, readers, codec, calc, server, netPc, swapOnRead, token, bathymetry, waterLevel,
                  snowHeight, currentBuffer, newBuffer, buffer, lockedIndex,
                  mostRecentIndex, nextIndex, connected, listener,
                  gridVersion, updates, textureVersion, update >>

ReadGeometry ==
  /\ mainPc = "geometry"
  /\ \/ \* a read fails
        /\ CtorThrow("runtime_error", pipe, live)
        /\ UNCHANGED <<gridSize, cellSize, bathymetrySize, elevationRange>>
        /\ hist' = [hist EXCEPT !.readsAfterToken = 1]
     \/ LET geo == server.geometry
            gs == <<Receive32(geo.gridSize[1]), Receive32(geo.gridSize[2])>>
        IN  /\ gridSize' = gs
            /\ cellSize' = <<Receive32(geo.cellSize[1]), Receive32(geo.cellSize[2])>>
            /\ bathymetrySize' = <<gs[1] - 1, gs[2] - 1>>
            /\ elevationRange' = << Receive32(geo.elevationRange[1]),
                                    Receive32(geo.elevationRange[2]) >>
            /\ mainPc' = "alloc"
            /\ hist' = [hist EXCEPT !.readsAfterToken = 1]
            /\ UNCHANGED <<ctorError, pipe, live>>
  /\ UNCHANGED << sent, readers, codec, calc, server, netPc, swapOnRead, token, bathymetry, waterLevel,
                  snowHeight, currentBuffer, newBuffer, buffer, lockedIndex,
                  mostRecentIndex, nextIndex, connected, listener,
                  gridVersion, updates, textureVersion, update >>

Allocate ==
  /\ mainPc = "alloc"
  /\ \/ \* the (k+1)-th new[] throws std::bad_alloc
        \E k \in 0 .. (Len(AllocOrder) - 1) :
          /\ CtorThrow("bad_alloc", pipe, FirstAllocated(k))
          /\ UNCHANGED <<bathymetry, waterLevel, snowHeight, buffer>>
     \/ /\ live' = FirstAllocated(Len(AllocOrder))
        /\ bathymetry' = [i \in 0 .. (NumQuantized - 1) |-> FreshArray(Volume(bathymetrySize))]
        /\ waterLevel' = [i \in 0 .. (NumQuantized - 1) |-> FreshArray(Volume(gridSize))]
        /\ snowHeight' = [i \in 0 .. (NumQuantized - 1) |-> FreshArray(Volume(gridSize))]
        /\ buffer' = [s \in Slots |->
                        [g \in Grids |->
                           IF g = "bathymetry"
                             THEN FreshArray((gridSize[2] - 1) * (gridSize[1] - 1))
                             ELSE FreshArray(gridSize[2] * gridSize[1])]]
        /\ mainPc' = "intraBathymetry"
        /\ UNCHANGED <<ctorError, pipe>>
  /\ UNCHANGED << sent, readers, codec, calc, server, netPc, swapOnRead, token, gridSize, cellSize,
                  bathymetrySize, elevationRange, currentBuffer, newBuffer,
                  lockedIndex, mostRecentIndex, nextIndex, connected,
                  listener, gridVersion, updates, hist, textureVersion,
                  update >>

\* Faulty variant: the bathymetry grid is decoded with the size of the
\* cell-centered grids.
IntraBathymetryFullSize ==
  /\ mainPc = "intraBathymetry"
  /\ currentBuffer' = 0
  /\ LET seed == server.initial.bathymetry
         grid == IntraDecode(IntraEncode(IntraGrid(seed, gridSize[1] * gridSize[2])))
     IN  /\ bathymetry' = [bathymetry EXCEPT ![0] = grid]
         /\ mainPc' = "intraWaterLevel"
         /\ hist' = [hist EXCEPT !.intra["bathymetry"] = @ + 1,
                                 !.readsAfterToken = 2,
                                 !.lastDecoded["bathymetry"] = grid,
                                 !.decoded = <<"bathymetry">>]
         /\ UNCHANGED <<ctorError, pipe, live>>
  /\ UNCHANGED << sent, readers, codec, calc, server, netPc, swapOnRead, token, gridSize, cellSize,
                  bathymetrySize, elevationRange, waterLevel, snowHeight,
                  newBuffer, buffer, lockedIndex, mostRecentIndex, nextIndex,
                  connected, listener, gridVersion, updates, textureVersion,
                  update >>

\* Lines 144-146: the intra-coded bathymetry grid.
IntraBathymetry ==
  /\ mainPc = "intraBathymetry"
  /\ currentBuffer' = 0
  /\ LET seed == server.initial.bathymetry
         old == bathymetry[0]
         grid == IntraDecode(IntraEncode(IntraGrid(seed, bathymetrySize[1] * bathymetrySize[2])))
     IN  \/ \E k \in FailPoints(Len(old)) :
                /\ bathymetry' = [bathymetry EXCEPT ![0] = PartialDecode(old, grid, k)]
                /\ CtorThrow("runtime_error", pipe, live)
                /\ hist' = [hist EXCEPT !.intra["bathymetry"] = @ + 1, !.readsAfterToken = 2]
         \/ /\ bathymetry' = [bathymetry EXCEPT ![0] = grid]
            /\ mainPc' = "intraWaterLevel"
            /\ hist' = [hist EXCEPT !.intra["bathymetry"] = @ + 1, !.readsAfterToken = 2,
                                    !.lastDecoded["bathymetry"] = grid,
                                    !.decoded = <<"bathymetry">>]
            /\ UNCHANGED <<ctorError, pipe, live>>
  /\ UNCHANGED << sent, readers, codec, calc, server, netPc, swapOnRead, token, gridSize, cellSize,
                  bathymetrySize, elevationRange, waterLevel, snowHeight,
                  newBuffer, buffer, lockedIndex, mostRecentIndex, nextIndex,
                  connected, listener, gridVersion, updates, textureVersion,
                  update >>

\* Line 147: the intra-coded water level grid.
IntraWaterLevel ==
  /\ mainPc = "intraWaterLevel"
  /\ LET seed == server.initial.waterLevel
         old == waterLevel[currentBuffer]
         grid == IntraDecode(IntraEncode(IntraGrid(seed, gridSize[1] * gridSize[2])))
     IN  \/ \E k \in FailPoints(Len(old)) :
                /\ waterLevel' = [waterLevel EXCEPT ![currentBuffer] = PartialDecode(old, grid, k)]
                /\ CtorThrow("runtime_error", pipe, live)
                /\ hist' = [hist EXCEPT !.intra["waterLevel"] = @ + 1]
         \/ /\ waterLevel' = [waterLevel EXCEPT ![currentBuffer] = grid]
            /\ mainPc' = "intraSnowHeight"
            /\ hist' = [hist EXCEPT !.intra["waterLevel"] = @ + 1, !.lastDecoded["waterLevel"] = grid,
                                    !.decoded = Append(@, "waterLevel")]
            /\ UNCHANGED <<ctorError, pipe, live>>
  /\ UNCHANGED << sent, readers, codec, calc, server, netPc, swapOnRead, token, gridSize, cellSize,
                  bathymetrySize, elevationRange, bathymetry, snowHeight,
                  currentBuffer, newBuffer, buffer, lockedIndex,
                  mostRecentIndex, nextIndex, connected, listener,
                  gridVersion, updates, textureVersion, update >>

\* Line 148: the intra-coded snow height grid.
IntraSnowHeight ==
  /\ mainPc = "intraSnowHeight"
  /\ LET seed == server.initial.snowHeight
         old == snowHeight[currentBuffer]
         grid == IntraDecode(IntraEncode(IntraGrid(seed, gridSize[1] * gridSize[2])))
     IN  \/ \E k \in FailPoints(Len(old)) :
                /\ snowHeight' = [snowHeight EXCEPT ![currentBuffer] = PartialDecode(old, grid, k)]
                /\ CtorThrow("runtime_error", pipe, live)
                /\ hist' = [hist EXCEPT !.intra["snowHeight"] = @ + 1]
         \/ /\ snowHeight' = [snowHeight EXCEPT ![currentBuffer] = grid]
            /\ mainPc' = "unquantize"
            /\ hist' = [hist EXCEPT !.intra["snowHeight"] = @ + 1, !.lastDecoded["snowHeight"] = grid,
                                    !.decoded = Append(@, "snowHeight")]
            /\ UNCHANGED <<ctorError, pipe, live>>
  /\ UNCHANGED << sent, readers, codec, calc, server, netPc, swapOnRead, token, gridSize, cellSize,
                  bathymetrySize, elevationRange, bathymetry, waterLevel,
                  currentBuffer, newBuffer, buffer, lockedIndex,
                  mostRecentIndex, nextIndex, connected, listener,
                  gridVersion, updates, textureVersion, update >>

\* Faulty variant: the constructor returns without un-quantizing and posting
\* the initial grids.
CtorUnquantizeSkipped ==
  /\ mainPc = "unquantize"
  /\ mainPc' = "constructed"
  /\ UNCHANGED << sent, readers, codec, calc, server, netPc, pipe, swapOnRead, token, gridSize, cellSize,
                  bathymetrySize, elevationRange, live, bathymetry,
                  waterLevel, snowHeight, currentBuffer, newBuffer, buffer,
                  lockedIndex, mostRecentIndex, nextIndex, connected,
                  listener, gridVersion, ctorError, updates, hist,
                  textureVersion, update >>

\* Line 149: unquantizeGrids, called while no other thread exists.
CtorUnquantize ==
  /\ mainPc = "unquantize"
  /\ LET slot == StartNewValue(lockedIndex, mostRecentIndex)
     IN  /\ nextIndex' = slot
         /\ buffer' = [buffer EXCEPT ![slot] =
                         UnquantizeAll(bathymetry, waterLevel, snowHeight,
                                       currentBuffer, elevationRange)]
         /\ mostRecentIndex' = slot
         /\ hist' = [hist EXCEPT !.pubCount = @ + 1,
                                 !.tag[slot] = [g \in Grids |-> hist.pubCount + 1],
                                 !.postedSinceLock = TRUE,
                                 !.lastPosted = hist.pubCount + 1]
  /\ mainPc' = "constructed"
  /\ UNCHANGED << sent, readers, codec, calc, server, netPc, pipe, swapOnRead, token, gridSize, cellSize,
                  bathymetrySize, elevationRange, live, bathymetry,
                  waterLevel, snowHeight, currentBuffer, newBuffer,
                  lockedIndex, connected, listener, gridVersion, ctorError,
                  updates, textureVersion, update >>

(***************************************************************************)
(* SandboxClient::SandboxClient after the RemoteClient exists.             *)
(***************************************************************************)
\* Line 1084.
SetConnected ==
  /\ mainPc = "constructed"
  /\ connected' = TRUE
  /\ mainPc' = "listen"
  /\ UNCHANGED << sent, readers, codec, calc, server, netPc, pipe, swapOnRead, token, gridSize, cellSize,
                  bathymetrySize, elevationRange, live, bathymetry,
                  waterLevel, snowHeight, currentBuffer, newBuffer, buffer,
                  lockedIndex, mostRecentIndex, nextIndex, listener,
                  gridVersion, ctorError, updates, hist, textureVersion,
                  update >>

\* Lines 1113-1114.
AddListener ==
  /\ mainPc = "listen"
  /\ listener' = TRUE
  /\ mainPc' = "frame"
  /\ UNCHANGED << sent, readers, codec, calc, server, netPc, pipe, swapOnRead, token, gridSize, cellSize,
                  bathymetrySize, elevationRange, live, bathymetry,
                  waterLevel, snowHeight, currentBuffer, newBuffer, buffer,
                  lockedIndex, mostRecentIndex, nextIndex, connected,
                  gridVersion, ctorError, updates, hist, textureVersion,
                  update >>

(***************************************************************************)
(* The network thread: SandboxClient::serverMessageCallback, which calls   *)
(* RemoteClient::processUpdate, which calls unquantizeGrids.               *)
(***************************************************************************)
\* Faulty variant: the decoders are handed the current buffers as output.
ServerMessageCallbackSameBuffer ==
  /\ netPc = "idle"
  /\ listener
  /\ updates < MaxUpdates
  /\ updates' = updates + 1
  /\ update' \in UpdateFrames
  /\ newBuffer' = currentBuffer
  /\ netPc' = "decodeBathymetry"
  /\ hist' = [hist EXCEPT !.decoded = <<>>, !.flips = 0, !.posts = 0,
                          !.outcome = "running",
                          !.snap = [ currentBuffer |-> currentBuffer,
                                     bathymetry |-> bathymetry[currentBuffer],
                                     waterLevel |-> waterLevel[currentBuffer],
                                     snowHeight |-> snowHeight[currentBuffer],
                                     mostRecentIndex |-> mostRecentIndex,
                                     buffer |-> buffer ]]
  /\ UNCHANGED << sent, readers, codec, calc, server, mainPc, pipe, swapOnRead, token, gridSize,
                  cellSize, bathymetrySize, elevationRange, live, bathymetry,
                  waterLevel, snowHeight, currentBuffer, buffer, lockedIndex,
                  mostRecentIndex, nextIndex, connected, listener,
                  gridVersion, ctorError, textureVersion >>

\* The dispatcher calls the callback for an update message; processUpdate
\* begins (lines 209-212).
ServerMessageCallback ==
  /\ netPc = "idle"
  /\ listener
  /\ updates < MaxUpdates
  /\ updates' = updates + 1
  /\ update' \in UpdateFrames
  /\ newBuffer' = 1 - currentBuffer
  /\ netPc' = "decodeBathymetry"
  /\ hist' = [hist EXCEPT !.decoded = <<>>, !.flips = 0, !.posts = 0,
                          !.outcome = "running",
                          !.snap = [ currentBuffer |-> currentBuffer,
                                     bathymetry |-> bathymetry[currentBuffer],
                                     waterLevel |-> waterLevel[currentBuffer],
                                     snowHeight |-> snowHeight[currentBuffer],
                                     mostRecentIndex |-> mostRecentIndex,
                                     buffer |-> buffer ]]
  /\ UNCHANGED << sent, readers, codec, calc, server, mainPc, pipe, swapOnRead, token, gridSize,
                  cellSize, bathymetrySize, elevationRange, live, bathymetry,
                  waterLevel, snowHeight, currentBuffer, buffer, lockedIndex,
                  mostRecentIndex, nextIndex, connected, listener,
                  gridVersion, ctorError, textureVersion >>

\* Line 213: the inter-coded bathymetry grid, decoded against the grid at
\* currentBuffer into the grid at newBuffer.
DecodeBathymetry ==
  /\ netPc = "decodeBathymetry"
  /\ LET seed == update.bathymetry
         prev == bathymetry[currentBuffer]
         old == bathymetry[newBuffer]
         grid == InterDecode(prev, DeltaGrid(seed, Len(prev)))
     IN  \/ \E k \in FailPoints(Len(old)) :
                /\ bathymetry' = [bathymetry EXCEPT ![newBuffer] = PartialDecode(old, grid, k)]
                /\ netPc' = "catch"
                /\ hist' = [hist EXCEPT !.inter["bathymetry"] = @ + 1, !.handedPrev["bathymetry"] = prev,
                                        !.expectedPrev["bathymetry"] = hist.lastDecoded["bathymetry"]]
         \/ /\ bathymetry' = [bathymetry EXCEPT ![newBuffer] = grid]
            /\ netPc' = "decodeWaterLevel"
            /\ hist' = [hist EXCEPT !.inter["bathymetry"] = @ + 1, !.handedPrev["bathymetry"] = prev,
                                    !.expectedPrev["bathymetry"] = hist.lastDecoded["bathymetry"],
                                    !.lastDecoded["bathymetry"] = grid,
                                    !.decoded = Append(@, "bathymetry")]
  /\ UNCHANGED << sent, readers, codec, calc, server, mainPc, pipe, swapOnRead, token, gridSize,
                  cellSize, bathymetrySize, elevationRange, live, waterLevel,
                  snowHeight, currentBuffer, newBuffer, buffer, lockedIndex,
                  mostRecentIndex, nextIndex, connected, listener,
                  gridVersion, ctorError, updates, textureVersion, update >>

\* Faulty variant: the water level grid is decoded in place, over the previous grid.
DecodeWaterLevelInPlace ==
  /\ netPc = "decodeWaterLevel"
  /\ LET seed == update.waterLevel
         prev == waterLevel[currentBuffer]
         old == waterLevel[currentBuffer]
         grid == InterDecode(prev, DeltaGrid(seed, Len(prev)))
     IN  \/ \E k \in FailPoints(Len(old)) :
                /\ waterLevel' = [waterLevel EXCEPT ![currentBuffer] = PartialDecode(old, grid, k)]
                /\ netPc' = "catch"
                /\ hist' = [hist EXCEPT !.inter["waterLevel"] = @ + 1, !.handedPrev["waterLevel"] = prev,
                                        !.expectedPrev["waterLevel"] = hist.lastDecoded["waterLevel"]]
         \/ /\ waterLevel' = [waterLevel EXCEPT ![currentBuffer] = grid]
            /\ netPc' = "decodeSnowHeight"
            /\ hist' = [hist EXCEPT !.inter["waterLevel"] = @ + 1, !.handedPrev["waterLevel"] = prev,
                                    !.expectedPrev["waterLevel"] = hist.lastDecoded["waterLevel"],
                                    !.lastDecoded["waterLevel"] = grid,
                                    !.decoded = Append(@, "waterLevel")]
  /\ UNCHANGED << sent, readers, codec, calc, server, mainPc, pipe, swapOnRead, token, gridSize,
                  cellSize, bathymetrySize, elevationRange, live, bathymetry,
                  snowHeight, currentBuffer, newBuffer, buffer, lockedIndex,
                  mostRecentIndex, nextIndex, connected, listener,
                  gridVersion, ctorError, updates, textureVersion, update >>

\* Faulty variant: the snow height grid is not decoded.
DecodeWaterLevelThenFlip ==
  /\ netPc = "decodeWaterLevel"
  /\ LET seed == update.waterLevel
         prev == waterLevel[currentBuffer]
         old == waterLevel[newBuffer]
         grid == InterDecode(prev, DeltaGrid(seed, Len(prev)))
     IN  \/ \E k \in FailPoints(Len(old)) :
                /\ waterLevel' = [waterLevel EXCEPT ![newBuffer] = PartialDecode(old, grid, k)]
                /\ netPc' = "catch"
                /\ hist' = [hist EXCEPT !.inter["waterLevel"] = @ + 1, !.handedPrev["waterLevel"] = prev,
                                        !.expectedPrev["waterLevel"] = hist.lastDecoded["waterLevel"]]
         \/ /\ waterLevel' = [waterLevel EXCEPT ![newBuffer] = grid]
            /\ netPc' = "flip"
            /\ hist' = [hist EXCEPT !.inter["waterLevel"] = @ + 1, !.handedPrev["waterLevel"] = prev,
                                    !.expectedPrev["waterLevel"] = hist.lastDecoded["waterLevel"],
                                    !.lastDecoded["waterLevel"] = grid,
                                    !.decoded = Append(@, "waterLevel")]
  /\ UNCHANGED << sent, readers, codec, calc, server, mainPc, pipe, swapOnRead, token, gridSize,
                  cellSize, bathymetrySize, elevationRange, live, bathymetry,
                  snowHeight, currentBuffer, newBuffer, buffer, lockedIndex,
                  mostRecentIndex, nextIndex, connected, listener,
                  gridVersion, ctorError, updates, textureVersion, update >>

\* Line 214: the inter-coded waterLevel grid, decoded against the grid at
\* currentBuffer into the grid at newBuffer.
DecodeWaterLevel ==
  /\ netPc = "decodeWaterLevel"
  /\ LET seed == update.waterLevel
         prev == waterLevel[currentBuffer]
         old == waterLevel[newBuffer]
         grid == InterDecode(prev, DeltaGrid(seed, Len(prev)))
     IN  \/ \E k \in FailPoints(Len(old)) :
                /\ waterLevel' = [waterLevel EXCEPT ![newBuffer] = PartialDecode(old, grid, k)]
                /\ netPc' = "catch"
                /\ hist' = [hist EXCEPT !.inter["waterLevel"] = @ + 1, !.handedPrev["waterLevel"] = prev,
                                        !.expectedPrev["waterLevel"] = hist.lastDecoded["waterLevel"]]
         \/ /\ waterLevel' = [waterLevel EXCEPT ![newBuffer] = grid]
            /\ netPc' = "decodeSnowHeight"
            /\ hist' = [hist EXCEPT !.inter["waterLevel"] = @ + 1, !.handedPrev["waterLevel"] = prev,
                                    !.expectedPrev["waterLevel"] = hist.lastDecoded["waterLevel"],
                                    !.lastDecoded["waterLevel"] = grid,
                                    !.decoded = Append(@, "waterLevel")]
  /\ UNCHANGED << sent, readers, codec, calc, server, mainPc, pipe, swapOnRead, token, gridSize,
                  cellSize, bathymetrySize, elevationRange, live, bathymetry,
                  snowHeight, currentBuffer, newBuffer, buffer, lockedIndex,
                  mostRecentIndex, nextIndex, connected, listener,
                  gridVersion, ctorError, updates, textureVersion, update >>

\* Faulty variant: a failure of the snow height decode is swallowed and
\* processUpdate carries on with whatever the decoder had written.
DecodeSnowHeightIgnoresError ==
  /\ netPc = "decodeSnowHeight"
  /\ LET seed == update.snowHeight
         prev == snowHeight[currentBuffer]
         old == snowHeight[newBuffer]
         grid == InterDecode(prev, DeltaGrid(seed, Len(prev)))
     IN  \/ \E k \in FailPoints(Len(old)) :
                /\ snowHeight' = [snowHeight EXCEPT ![newBuffer] = PartialDecode(old, grid, k)]
                /\ netPc' = "flip"
                /\ hist' = [hist EXCEPT !.inter["snowHeight"] = @ + 1, !.handedPrev["snowHeight"] = prev,
                                        !.expectedPrev["snowHeight"] = hist.lastDecoded["snowHeight"]]
         \/ /\ snowHeight' = [snowHeight EXCEPT ![newBuffer] = grid]
            /\ netPc' = "flip"
            /\ hist' = [hist EXCEPT !.inter["snowHeight"] = @ + 1, !.handedPrev["snowHeight"] = prev,
                                    !.expectedPrev["snowHeight"] = hist.lastDecoded["snowHeight"],
                                    !.lastDecoded["snowHeight"] = grid,
                                    !.decoded = Append(@, "snowHeight")]
  /\ UNCHANGED << sent, readers, codec, calc, server, mainPc, pipe, swapOnRead, token, gridSize,
                  cellSize, bathymetrySize, elevationRange, live, bathymetry,
                  waterLevel, currentBuffer, newBuffer, buffer, lockedIndex,
                  mostRecentIndex, nextIndex, connected, listener,
                  gridVersion, ctorError, updates, textureVersion, update >>

\* Line 215: the inter-coded snowHeight grid, decoded against the grid at
\* currentBuffer into the grid at newBuffer.
DecodeSnowHeight ==
  /\ netPc = "decodeSnowHeight"
  /\ LET seed == update.snowHeight
         prev == snowHeight[currentBuffer]
         old == snowHeight[newBuffer]
         grid == InterDecode(prev, DeltaGrid(seed, Len(prev)))
     IN  \/ \E k \in FailPoints(Len(old)) :
                /\ snowHeight' = [snowHeight EXCEPT ![newBuffer] = PartialDecode(old, grid, k)]
                /\ netPc' = "catch"
                /\ hist' = [hist EXCEPT !.inter["snowHeight"] = @ + 1, !.handedPrev["snowHeight"] = prev,
                                        !.expectedPrev["snowHeight"] = hist.lastDecoded["snowHeight"]]
         \/ /\ snowHeight' = [snowHeight EXCEPT ![newBuffer] = grid]
            /\ netPc' = "flip"
            /\ hist' = [hist EXCEPT !.inter["snowHeight"] = @ + 1, !.handedPrev["snowHeight"] = prev,
                                    !.expectedPrev["snowHeight"] = hist.lastDecoded["snowHeight"],
                                    !.lastDecoded["snowHeight"] = grid,
                                    !.decoded = Append(@, "snowHeight")]
  /\ UNCHANGED << sent, readers, codec, calc, server, mainPc, pipe, swapOnRead, token, gridSize,
                  cellSize, bathymetrySize, elevationRange, live, bathymetry,
                  waterLevel, currentBuffer, newBuffer, buffer, lockedIndex,
                  mostRecentIndex, nextIndex, connected, listener,
                  gridVersion, ctorError, updates, textureVersion, update >>

\* Faulty variant: currentBuffer is not advanced to the newly decoded grids.
FlipMissing ==
  /\ netPc = "flip"
  /\ currentBuffer' = currentBuffer
  /\ hist' = [hist EXCEPT !.flips = @ + 1]
  /\ netPc' = "unquantizeStart"
  /\ UNCHANGED << sent, readers, codec, calc, server, mainPc, pipe, swapOnRead, token, gridSize,
                  cellSize, bathymetrySize, elevationRange, live, bathymetry,
                  waterLevel, snowHeight, newBuffer, buffer, lockedIndex,
                  mostRecentIndex, nextIndex, connected, listener,
                  gridVersion, ctorError, updates, textureVersion, update >>

\* Line 216.
Flip ==
  /\ netPc = "flip"
  /\ currentBuffer' = newBuffer
  /\ hist' = [hist EXCEPT !.flips = @ + 1]
  /\ netPc' = "unquantizeStart"
  /\ UNCHANGED << sent, readers, codec, calc, server, mainPc, pipe, swapOnRead, token, gridSize,
                  cellSize, bathymetrySize, elevationRange, live, bathymetry,
                  waterLevel, snowHeight, newBuffer, buffer, lockedIndex,
                  mostRecentIndex, nextIndex, connected, listener,
                  gridVersion, ctorError, updates, textureVersion, update >>

\* Faulty variant: startNewValue is not called, the slot of the last post is reused.
UnquantizeStartStale ==
  /\ netPc = "unquantizeStart"
  /\ nextIndex' = nextIndex
  /\ hist' = [hist EXCEPT !.pubCount = @ + 1]
  /\ netPc' = "unquantizeBathymetry"
  /\ UNCHANGED << sent, readers, codec, calc, server, mainPc, pipe, swapOnRead, token, gridSize,
                  cellSize, bathymetrySize, elevationRange, live, bathymetry,
                  waterLevel, snowHeight, currentBuffer, newBuffer, buffer,
                  lockedIndex, mostRecentIndex, connected, listener,
                  gridVersion, ctorError, updates, textureVersion, update >>

\* Faulty variant: the writer waits for the reader to take the last post
\* before it starts a new value.
UnquantizeStartWaitsForReader ==
  /\ netPc = "unquantizeStart"
  /\ lockedIndex = mostRecentIndex
  /\ nextIndex' = StartNewValue(lockedIndex, mostRecentIndex)
  /\ hist' = [hist EXCEPT !.pubCount = @ + 1]
  /\ netPc' = "unquantizeBathymetry"
  /\ UNCHANGED << sent, readers, codec, calc, server, mainPc, pipe, swapOnRead, token, gridSize,
                  cellSize, bathymetrySize, elevationRange, live, bathymetry,
                  waterLevel, snowHeight, currentBuffer, newBuffer, buffer,
                  lockedIndex, mostRecentIndex, connected, listener,
                  gridVersion, ctorError, updates, textureVersion, update >>

\* Line 65: unquantizeGrids obtains the slot to fill.
UnquantizeStart ==
  /\ netPc = "unquantizeStart"
  /\ nextIndex' = StartNewValue(lockedIndex, mostRecentIndex)
  /\ hist' = [hist EXCEPT !.pubCount = @ + 1]
  /\ netPc' = "unquantizeBathymetry"
  /\ UNCHANGED << sent, readers, codec, calc, server, mainPc, pipe, swapOnRead, token, gridSize,
                  cellSize, bathymetrySize, elevationRange, live, bathymetry,
                  waterLevel, snowHeight, currentBuffer, newBuffer, buffer,
                  lockedIndex, mostRecentIndex, connected, listener,
                  gridVersion, ctorError, updates, textureVersion, update >>

\* Faulty variant: the slot is posted as soon as its bathymetry grid is filled.
UnquantizeBathymetryPostsEarly ==
  /\ netPc = "unquantizeBathymetry"
  /\ buffer' = [buffer EXCEPT ![nextIndex]["bathymetry"] =
                  Unquantize(bathymetry[currentBuffer], elevationRange)]
  /\ hist' = [hist EXCEPT !.tag[nextIndex]["bathymetry"] = hist.pubCount]
  /\ netPc' = "unquantizeWaterLevel"
  /\ mostRecentIndex' = nextIndex
  /\ UNCHANGED << sent, readers, codec, calc, server, mainPc, pipe, swapOnRead, token, gridSize,
                  cellSize, bathymetrySize, elevationRange, live, bathymetry,
                  waterLevel, snowHeight, currentBuffer, newBuffer,
                  lockedIndex, nextIndex, connected,
                  listener, gridVersion, ctorError, updates, textureVersion,
                  update >>

\* Lines 72-75: the bathymetry loop of unquantizeGrids.
UnquantizeBathymetry ==
  /\ netPc = "unquantizeBathymetry"
  /\ buffer' = [buffer EXCEPT ![nextIndex]["bathymetry"] =
                  Unquantize(bathymetry[currentBuffer], elevationRange)]
  /\ hist' = [hist EXCEPT !.tag[nextIndex]["bathymetry"] = hist.pubCount]
  /\ netPc' = "unquantizeWaterLevel"
  /\ UNCHANGED << sent, readers, codec, calc, server, mainPc, pipe, swapOnRead, token, gridSize,
                  cellSize, bathymetrySize, elevationRange, live, bathymetry,
                  waterLevel, snowHeight, currentBuffer, newBuffer,
                  lockedIndex, mostRecentIndex, nextIndex, connected,
                  listener, gridVersion, ctorError, updates, textureVersion,
                  update >>

\* Faulty variant: the water level loop reads the grid that is not current.
UnquantizeWaterLevelFromOther ==
  /\ netPc = "unquantizeWaterLevel"
  /\ buffer' = [buffer EXCEPT ![nextIndex]["waterLevel"] =
                  Unquantize(waterLevel[1 - currentBuffer], elevationRange)]
  /\ hist' = [hist EXCEPT !.tag[nextIndex]["waterLevel"] = hist.pubCount]
  /\ netPc' = "unquantizeSnowHeight"
  /\ UNCHANGED << sent, readers, codec, calc, server, mainPc, pipe, swapOnRead, token, gridSize,
                  cellSize, bathymetrySize, elevationRange, live, bathymetry,
                  waterLevel, snowHeight, currentBuffer, newBuffer,
                  lockedIndex, mostRecentIndex, nextIndex, connected,
                  listener, gridVersion, ctorError, updates, textureVersion,
                  update >>

\* Lines 78-81: the waterLevel loop of unquantizeGrids.
UnquantizeWaterLevel ==
  /\ netPc = "unquantizeWaterLevel"
  /\ buffer' = [buffer EXCEPT ![nextIndex]["waterLevel"] =
                  Unquantize(waterLevel[currentBuffer], elevationRange)]
  /\ hist' = [hist EXCEPT !.tag[nextIndex]["waterLevel"] = hist.pubCount]
  /\ netPc' = "unquantizeSnowHeight"
  /\ UNCHANGED << sent, readers, codec, calc, server, mainPc, pipe, swapOnRead, token, gridSize,
                  cellSize, bathymetrySize, elevationRange, live, bathymetry,
                  waterLevel, snowHeight, currentBuffer, newBuffer,
                  lockedIndex, mostRecentIndex, nextIndex, connected,
                  listener, gridVersion, ctorError, updates, textureVersion,
                  update >>

\* Faulty variant: the snow height loop writes through getLockedValue().
UnquantizeSnowHeightIntoLocked ==
  /\ netPc = "unquantizeSnowHeight"
  /\ buffer' = [buffer EXCEPT ![lockedIndex]["snowHeight"] =
                  Unquantize(snowHeight[currentBuffer], elevationRange)]
  /\ hist' = [hist EXCEPT !.tag[lockedIndex]["snowHeight"] = hist.pubCount]
  /\ netPc' = "post"
  /\ UNCHANGED << sent, readers, codec, calc, server, mainPc, pipe, swapOnRead, token, gridSize,
                  cellSize, bathymetrySize, elevationRange, live, bathymetry,
                  waterLevel, snowHeight, currentBuffer, newBuffer,
                  lockedIndex, mostRecentIndex, nextIndex, connected,
                  listener, gridVersion, ctorError, updates, textureVersion,
                  update >>

\* Lines 84-87: the snowHeight loop of unquantizeGrids.
UnquantizeSnowHeight ==
  /\ netPc = "unquantizeSnowHeight"
  /\ buffer' = [buffer EXCEPT ![nextIndex]["snowHeight"] =
                  Unquantize(snowHeight[currentBuffer], elevationRange)]
  /\ hist' = [hist EXCEPT !.tag[nextIndex]["snowHeight"] = hist.pubCount]
  /\ netPc' = "post"
  /\ UNCHANGED << sent, readers, codec, calc, server, mainPc, pipe, swapOnRead, token, gridSize,
                  cellSize, bathymetrySize, elevationRange, live, bathymetry,
                  waterLevel, snowHeight, currentBuffer, newBuffer,
                  lockedIndex, mostRecentIndex, nextIndex, connected,
                  listener, gridVersion, ctorError, updates, textureVersion,
                  update >>

\* Line 90: the slot is posted; processUpdate and the callback return.
PostNewValue ==
  /\ netPc = "post"
  /\ mostRecentIndex' = nextIndex
  /\ hist' = [hist EXCEPT !.posts = @ + 1, !.postedSinceLock = TRUE,
                          !.outcome = "ok", !.lastPosted = hist.pubCount]
  /\ netPc' = "idle"
  /\ UNCHANGED << sent, readers, codec, calc, server, mainPc, pipe, swapOnRead, token, gridSize,
                  cellSize, bathymetrySize, elevationRange, live, bathymetry,
                  waterLevel, snowHeight, currentBuffer, newBuffer, buffer,
                  lockedIndex, nextIndex, connected, listener, gridVersion,
                  ctorError, updates, textureVersion, update >>

\* Faulty variant: the listener is removed but connected is left set.
CatchDisconnectKeepsFlag ==
  /\ netPc = "catch"
  /\ listener' = FALSE
  /\ connected' = connected
  /\ hist' = [hist EXCEPT !.outcome = "failed"]
  /\ netPc' = "idle"
  /\ UNCHANGED << sent, readers, codec, calc, server, mainPc, pipe, swapOnRead, token, gridSize,
                  cellSize, bathymetrySize, elevationRange, live, bathymetry,
                  waterLevel, snowHeight, currentBuffer, newBuffer, buffer,
                  lockedIndex, mostRecentIndex, nextIndex, gridVersion,
                  ctorError, updates, textureVersion, update >>

\* Lines 565-571: processUpdate threw.
CatchDisconnect ==
  /\ netPc = "catch"
  /\ listener' = FALSE
  /\ connected' = FALSE
  /\ hist' = [hist EXCEPT !.outcome = "failed"]
  /\ netPc' = "idle"
  /\ UNCHANGED << sent, readers, codec, calc, server, mainPc, pipe, swapOnRead, token, gridSize,
                  cellSize, bathymetrySize, elevationRange, live, bathymetry,
                  waterLevel, snowHeight, currentBuffer, newBuffer, buffer,
                  lockedIndex, mostRecentIndex, nextIndex, gridVersion,
                  ctorError, updates, textureVersion, update >>

(***************************************************************************)
(* The main thread after construction: SandboxClient::frame followed by    *)
(* SandboxClient::display, once per Vrui frame.                            *)
(***************************************************************************)
\* A read of grid g through grids.getLockedValue(): the publish whose data
\* the reader finds there is added to what it has seen since it locked.
Observe(seen, g) == seen \cup { hist.tag[lockedIndex][g] }

\* Lines 1161-1171: lockNewGrids, then the test whether the head is inside
\* the bathymetry domain.
FrameLock ==
  /\ mainPc = "frame"
  /\ LET r == LockNewValue(lockedIndex, mostRecentIndex)
     IN  /\ lockedIndex' = r.index
         /\ gridVersion' = IF r.isNew THEN gridVersion + 1 ELSE gridVersion
         /\ hist' = [hist EXCEPT !.seen = IF r.isNew THEN {} ELSE @,
                                 !.postedSinceLock = FALSE,
                                 !.lockResult = IF r.isNew THEN "new" ELSE "same"]
  /\ \/ mainPc' = "queryWaterLevel"
     \/ mainPc' = "checkConnected"
  /\ UNCHANGED << sent, readers, codec, calc, server, netPc, pipe, swapOnRead, token, gridSize, cellSize,
                  bathymetrySize, elevationRange, live, bathymetry,
                  waterLevel, snowHeight, currentBuffer, newBuffer, buffer,
                  mostRecentIndex, nextIndex, connected, listener,
                  textureVersion, ctorError, updates, update >>

\* Line 1174.
QueryWaterLevel ==
  /\ mainPc = "queryWaterLevel"
  /\ hist' = [hist EXCEPT !.seen = Observe(@, "waterLevel")]
  /\ mainPc' = "queryBathymetry"
  /\ UNCHANGED << sent, readers, codec, calc, server, netPc, pipe, swapOnRead, token, gridSize, cellSize,
                  bathymetrySize, elevationRange, live, bathymetry,
                  waterLevel, snowHeight, currentBuffer, newBuffer, buffer,
                  lockedIndex, mostRecentIndex, nextIndex, connected,
                  listener, gridVersion, textureVersion, ctorError, updates,
                  update >>

\* Line 1177.
QueryBathymetry ==
  /\ mainPc = "queryBathymetry"
  /\ hist' = [hist EXCEPT !.seen = Observe(@, "bathymetry")]
  /\ mainPc' = "querySnowHeight"
  /\ UNCHANGED << sent, readers, codec, calc, server, netPc, pipe, swapOnRead, token, gridSize, cellSize,
                  bathymetrySize, elevationRange, live, bathymetry,
                  waterLevel, snowHeight, currentBuffer, newBuffer, buffer,
                  lockedIndex, mostRecentIndex, nextIndex, connected,
                  listener, gridVersion, textureVersion, ctorError, updates,
                  update >>

\* Line 1177.
QuerySnowHeight ==
  /\ mainPc = "querySnowHeight"
  /\ hist' = [hist EXCEPT !.seen = Observe(@, "snowHeight")]
  /\ mainPc' = "checkConnected"
  /\ UNCHANGED << sent, readers, codec, calc, server, netPc, pipe, swapOnRead, token, gridSize, cellSize,
                  bathymetrySize, elevationRange, live, bathymetry,
                  waterLevel, snowHeight, currentBuffer, newBuffer, buffer,
                  lockedIndex, mostRecentIndex, nextIndex, connected,
                  listener, gridVersion, textureVersion, ctorError, updates,
                  update >>

\* Line 1180.
CheckConnected ==
  /\ mainPc = "checkConnected"
  /\ mainPc' = IF connected THEN "sendViewer" ELSE "display"
  /\ hist' = [hist EXCEPT !.checkedAfterDisconnect =
                            @ \/ (hist.outcome = "failed" /\ ~connected)]
  /\ UNCHANGED << sent, readers, codec, calc, server, netPc, pipe, swapOnRead, token, gridSize, cellSize,
                  bathymetrySize, elevationRange, live, bathymetry,
                  waterLevel, snowHeight, currentBuffer, newBuffer, buffer,
                  lockedIndex, mostRecentIndex, nextIndex, connected,
                  listener, gridVersion, textureVersion, ctorError, updates,
                  update >>

\* Lines 1182-1192: sendViewer, which may throw.
SendViewer ==
  /\ mainPc = "sendViewer"
  /\ \/ /\ UNCHANGED connected
        /\ hist' = [hist EXCEPT !.sendsAfterFail =
                                  IF hist.outcome = "failed" THEN @ + 1 ELSE @]
     \/ /\ connected' = FALSE
        /\ hist' = [hist EXCEPT !.sendFailed = TRUE,
                                !.sendsAfterFail =
                                  IF hist.outcome = "failed" THEN @ + 1 ELSE @]
  /\ mainPc' = "display"
  /\ UNCHANGED << sent, readers, codec, calc, server, netPc, pipe, swapOnRead, token, gridSize, cellSize,
                  bathymetrySize, elevationRange, live, bathymetry,
                  waterLevel, snowHeight, currentBuffer, newBuffer, buffer,
                  lockedIndex, mostRecentIndex, nextIndex, listener,
                  gridVersion, textureVersion, ctorError, updates, update >>

\* Lines 1201-1220 and 1247: display returns early under snow, and uploads
\* the grids only when the context's textures are out of date.
Display ==
  /\ mainPc = "display"
  /\ \/ mainPc' = "frame"
     \/ mainPc' = IF textureVersion # gridVersion THEN "uploadBathymetry" ELSE "frame"
  /\ UNCHANGED << sent, readers, codec, calc, server, netPc, pipe, swapOnRead, token, gridSize, cellSize,
                  bathymetrySize, elevationRange, live, bathymetry,
                  waterLevel, snowHeight, currentBuffer, newBuffer, buffer,
                  lockedIndex, mostRecentIndex, nextIndex, connected,
                  listener, gridVersion, textureVersion, ctorError, updates,
                  hist, update >>

\* Line 1250.
UploadBathymetry ==
  /\ mainPc = "uploadBathymetry"
  /\ hist' = [hist EXCEPT !.seen = Observe(@, "bathymetry")]
  /\ mainPc' = "uploadWaterLevel"
  /\ UNCHANGED << sent, readers, codec, calc, server, netPc, pipe, swapOnRead, token, gridSize, cellSize,
                  bathymetrySize, elevationRange, live, bathymetry,
                  waterLevel, snowHeight, currentBuffer, newBuffer, buffer,
                  lockedIndex, mostRecentIndex, nextIndex, connected,
                  listener, gridVersion, textureVersion, ctorError, updates,
                  update >>

\* Line 1294.
UploadWaterLevel ==
  /\ mainPc = "uploadWaterLevel"
  /\ hist' = [hist EXCEPT !.seen = Observe(@, "waterLevel")]
  /\ mainPc' = "uploadSnowHeight"
  /\ UNCHANGED << sent, readers, codec, calc, server, netPc, pipe, swapOnRead, token, gridSize, cellSize,
                  bathymetrySize, elevationRange, live, bathymetry,
                  waterLevel, snowHeight, currentBuffer, newBuffer, buffer,
                  lockedIndex, mostRecentIndex, nextIndex, connected,
                  listener, gridVersion, textureVersion, ctorError, updates,
                  update >>

\* Lines 1329 and 1356.
UploadSnowHeight ==
  /\ mainPc = "uploadSnowHeight"
  /\ hist' = [hist EXCEPT !.seen = Observe(@, "snowHeight")]
  /\ textureVersion' = gridVersion
  /\ mainPc' = "frame"
  /\ UNCHANGED << sent, readers, codec, calc, server, netPc, pipe, swapOnRead, token, gridSize, cellSize,
                  bathymetrySize, elevationRange, live, bathymetry,
                  waterLevel, snowHeight, currentBuffer, newBuffer, buffer,
                  lockedIndex, mostRecentIndex, nextIndex, connected,
                  listener, gridVersion, ctorError, updates, update >>

(***************************************************************************)
(* SandboxClient::~SandboxClient, run by the main thread after the last    *)
(* frame.                                                                  *)
(***************************************************************************)
\* Line 1137: dispatcher.stopThread() is called and asks the network thread
\* to stop.
StopThread ==
  /\ mainPc = "frame"
  /\ mainPc' = "joinThread"
  /\ hist' = [hist EXCEPT !.stoppedBusy = (netPc # "idle")]
  /\ UNCHANGED << sent, readers, codec, calc, server, netPc, pipe, swapOnRead, token, gridSize,
                  cellSize, bathymetrySize, elevationRange, live, bathymetry,
                  waterLevel, snowHeight, currentBuffer, newBuffer, buffer,
                  lockedIndex, mostRecentIndex, nextIndex, connected,
                  listener, gridVersion, textureVersion, ctorError, updates,
                  update >>

\* The network thread, between two callbacks, finds that it was asked to
\* stop and terminates.
DispatcherExit ==
  /\ mainPc = "joinThread"
  /\ netPc = "idle"
  /\ netPc' = "stopped"
  /\ UNCHANGED << sent, readers, codec, calc, server, mainPc, pipe, swapOnRead, token, gridSize,
                  cellSize, bathymetrySize, elevationRange, live, bathymetry,
                  waterLevel, snowHeight, currentBuffer, newBuffer, buffer,
                  lockedIndex, mostRecentIndex, nextIndex, connected,
                  listener, gridVersion, textureVersion, ctorError, updates,
                  update, hist >>

\* Faulty variant: stopThread returns without waiting for the network thread.
JoinThreadNoWait ==
  /\ mainPc = "joinThread"
  /\ mainPc' = "deleteRemoteClient"
  /\ UNCHANGED << sent, readers, codec, calc, server, netPc, pipe, swapOnRead, token, gridSize,
                  cellSize, bathymetrySize, elevationRange, live, bathymetry,
                  waterLevel, snowHeight, currentBuffer, newBuffer, buffer,
                  lockedIndex, mostRecentIndex, nextIndex, connected,
                  listener, gridVersion, textureVersion, ctorError, updates,
                  update, hist >>

\* Line 1137: stopThread returns once the network thread has terminated.
JoinThread ==
  /\ mainPc = "joinThread"
  /\ netPc = "stopped"
  /\ mainPc' = "deleteRemoteClient"
  /\ UNCHANGED << sent, readers, codec, calc, server, netPc, pipe, swapOnRead, token, gridSize,
                  cellSize, bathymetrySize, elevationRange, live, bathymetry,
                  waterLevel, snowHeight, currentBuffer, newBuffer, buffer,
                  lockedIndex, mostRecentIndex, nextIndex, connected,
                  listener, gridVersion, textureVersion, ctorError, updates,
                  update, hist >>

\* Line 1138: delete remoteClient.  ~RemoteClient deletes the quantized
\* buffers, then the member grids is destroyed and ~GridBuffers deletes the
\* arrays of the three slots.  The pipe is not deleted.
DeleteRemoteClient ==
  /\ mainPc = "deleteRemoteClient"
  /\ live' = live \ (QuantizedArrays \cup SlotArrays)
  /\ bathymetry' = [i \in 0 .. (NumQuantized - 1) |-> NoGrid]
  /\ waterLevel' = [i \in 0 .. (NumQuantized - 1) |-> NoGrid]
  /\ snowHeight' = [i \in 0 .. (NumQuantized - 1) |-> NoGrid]
  /\ buffer' = [s \in Slots |-> EmptySlot]
  /\ mainPc' = "destroyed"
  /\ UNCHANGED << sent, readers, codec, calc, server, netPc, pipe, swapOnRead, token, gridSize,
                  cellSize, bathymetrySize, elevationRange, currentBuffer,
                  newBuffer, lockedIndex, mostRecentIndex, nextIndex,
                  connected, listener, gridVersion, textureVersion,
                  ctorError, updates, update, hist >>

Next ==
  \/ Connect
  \/ ReadToken
  \/ ReadGeometry
  \/ Allocate
  \/ IntraBathymetry
  \/ IntraWaterLevel
  \/ IntraSnowHeight
  \/ CtorUnquantize
  \/ SetConnected
  \/ AddListener
  \/ ServerMessageCallback
  \/ DecodeBathymetry
  \/ DecodeWaterLevel
  \/ DecodeSnowHeight
  \/ Flip
  \/ UnquantizeStart
  \/ UnquantizeBathymetry
  \/ UnquantizeWaterLevel
  \/ UnquantizeSnowHeight
  \/ PostNewValue
  \/ CatchDisconnect
  \/ FrameLock
  \/ QueryWaterLevel
  \/ QueryBathymetry
  \/ QuerySnowHeight
  \/ CheckConnected
  \/ SendViewer
  \/ Display
  \/ UploadBathymetry
  \/ UploadWaterLevel
  \/ UploadSnowHeight
  \/ StopThread
  \/ DispatcherExit
  \/ JoinThread
  \/ DeleteRemoteClient

Spec == Init /\ [][Next]_vars

\* The positions of the main thread once the session is streaming.
Streaming == {"frame", "queryWaterLevel", "queryBathymetry", "querySnowHeight",
              "checkConnected", "sendViewer", "display", "uploadBathymetry",
              "uploadWaterLevel", "uploadSnowHeight"}

\* The number of samples of grid g for a grid size of W x H.
GridLen(g, size) ==
  IF g = "bathymetry" THEN (size[1] - 1) * (size[2] - 1) ELSE size[1] * size[2]

(***************************************************************************)
(* The spatial queries, evaluated on a client that has been constructed,   *)
(* has decoded one update and has locked it.                               *)
(***************************************************************************)
\* Geometries for the queries: grids that hold a 2 x 2 stencil on both axes
\* and the smallest sandbox, whose bathymetry grid is a single vertex.
QueryGeometries ==
  { [gridSize |-> <<3, 3>>, cellSize |-> <<1, 1>>, elevationRange |-> <<0, 10>>],
    [gridSize |-> <<4, 3>>, cellSize |-> <<2, 1>>, elevationRange |-> <<0, 10>>],
    [gridSize |-> <<2, 2>>, cellSize |-> <<1, 1>>, elevationRange |-> <<0, 10>>] }

QueryServers ==
  { [ reply |-> WireBytes(TOKEN, FALSE), bigEndian |-> FALSE,
      geometry |-> geo, initial |-> f ] :
      geo \in QueryGeometries, f \in InitialFrames }

\* The coordinates queried along an axis.
Coordinates(axis) ==
  { [far |-> FALSE, n |-> k] :
      k \in (0 - MaxOutside) .. (2 * gridSize[axis] * cellSize[axis] + MaxOutside) }
  \cup { [far |-> TRUE, n |-> 0] }

\* What a read outside the array may deliver: a fault, or whatever the
\* memory there holds.
UndefinedValues == {Indeterminate, 0}

QueryInit ==
  /\ server \in QueryServers
  /\ update \in UpdateFrames
  /\ LET geo == server.geometry
         first == [g \in Grids |->
                     IntraDecode(IntraEncode(IntraGrid(server.initial[g], GridLen(g, geo.gridSize))))]
         second == [g \in Grids |->
                      InterDecode(first[g], DeltaGrid(update[g], Len(first[g])))]
     IN  /\ gridSize = geo.gridSize
         /\ cellSize = geo.cellSize
         /\ bathymetrySize = <<geo.gridSize[1] - 1, geo.gridSize[2] - 1>>
         /\ elevationRange = geo.elevationRange
         /\ bathymetry = [i \in 0 .. (NumQuantized - 1) |->
                            IF i = 0 THEN first["bathymetry"] ELSE second["bathymetry"]]
         /\ waterLevel = [i \in 0 .. (NumQuantized - 1) |->
                            IF i = 0 THEN first["waterLevel"] ELSE second["waterLevel"]]
         /\ snowHeight = [i \in 0 .. (NumQuantized - 1) |->
                            IF i = 0 THEN first["snowHeight"] ELSE second["snowHeight"]]
         /\ buffer = [s \in Slots |->
                        [g \in Grids |->
                           IF s = 0 THEN FreshArray(GridLen(g, geo.gridSize))
                           ELSE IF s = 1 THEN Unquantize(first[g], geo.elevationRange)
                           ELSE Unquantize(second[g], geo.elevationRange)]]
  /\ mainPc = "queryWaterLevel"
  /\ netPc = "idle"
  /\ pipe = "open"
  /\ swapOnRead = FALSE
  /\ token = TOKEN
  /\ live = FirstAllocated(Len(AllocOrder))
  /\ currentBuffer = 1
  /\ newBuffer = 1
  /\ lockedIndex = 2
  /\ mostRecentIndex = 2
  /\ nextIndex = 2
  /\ connected = TRUE
  /\ listener = TRUE
  /\ gridVersion = 1
  /\ textureVersion = 0
  /\ ctorError = "none"
  /\ updates = 1
  /\ \E x \in Coordinates(1), y \in Coordinates(2) :
       calc = [fn |-> "none", x |-> x, y |-> y]
  /\ codec = NoCodec
  /\ readers = InitReaders
  /\ sent = NoneSent
  /\ hist = InitHist

\* One call of a query on the locked slot, at the position drawn for it.
CalcGrid(fn) ==
  /\ mainPc \in Streaming
  /\ calc.fn = "none"
  /\ \E convx, convy \in ConversionOutcomes :
       LET r == Calc(fn, buffer[lockedIndex][fn], calc.x, calc.y, convx, convy)
       IN  IF r.inside
             THEN calc' = r
             ELSE \E v \in UndefinedValues : calc' = [r EXCEPT !.value = v]
  /\ UNCHANGED << sent, readers, codec, server, mainPc, netPc, pipe, swapOnRead, token,
                  gridSize, cellSize, bathymetrySize, elevationRange, live,
                  bathymetry, waterLevel, snowHeight, currentBuffer,
                  newBuffer, buffer, lockedIndex, mostRecentIndex, nextIndex,
                  connected, listener, gridVersion, textureVersion,
                  ctorError, updates, update, hist >>

\* Lines 222-240.
CalcBathymetry == CalcGrid("bathymetry")

\* Lines 242-260.
CalcWaterLevel == CalcGrid("waterLevel")

\* Lines 262-280.
CalcSnowHeight == CalcGrid("snowHeight")

QueryNext ==
  \/ CalcBathymetry
  \/ CalcWaterLevel
  \/ CalcSnowHeight

QuerySpec == QueryInit /\ [][QueryNext]_vars

(***************************************************************************)
(* The intra-frame codec on its own: the server encodes a quantized grid   *)
(* of one of the session's grid sizes, the client decodes the frame.       *)
(***************************************************************************)
\* The pixel values the grids are filled with.
CodecPixels == {0, 1, PixelMax}

\* All grids of n pixels.
CodecGrids(n) == [1 .. n -> CodecPixels]

CodecInit ==
  /\ InitClient
  /\ calc = NoCalc
  /\ \E g \in Grids :
       \E grid \in CodecGrids(GridLen(g, server.geometry.gridSize)) :
         codec = [op |-> "none", grid |-> grid]

\* The server encodes the grid and sends the frame.
SendIntra ==
  /\ codec.op = "none"
  /\ codec' = [op |-> "sent", grid |-> codec.grid, frame |-> IntraEncode(codec.grid)]
  /\ UNCHANGED << sent, readers, calc, server, mainPc, netPc, pipe, swapOnRead, token,
                  gridSize, cellSize, bathymetrySize, elevationRange, live,
                  bathymetry, waterLevel, snowHeight, currentBuffer,
                  newBuffer, buffer, lockedIndex, mostRecentIndex, nextIndex,
                  connected, listener, gridVersion, textureVersion,
                  ctorError, updates, update, hist >>

\* The client decodes the frame.
ReceiveIntra ==
  /\ codec.op = "sent"
  /\ codec' = [op |-> "decoded", grid |-> codec.grid, frame |-> codec.frame,
               decoded |-> IntraDecode(codec.frame)]
  /\ UNCHANGED << sent, readers, calc, server, mainPc, netPc, pipe, swapOnRead, token,
                  gridSize, cellSize, bathymetrySize, elevationRange, live,
                  bathymetry, waterLevel, snowHeight, currentBuffer,
                  newBuffer, buffer, lockedIndex, mostRecentIndex, nextIndex,
                  connected, listener, gridVersion, textureVersion,
                  ctorError, updates, update, hist >>

\* The grids a grid may follow: itself, the uniform grids, and the grid with
\* its pixels in reverse order.
PreviousGrids(curr) ==
  {curr} \cup {IntraGrid(p, Len(curr)) : p \in CodecPixels}
         \cup {[i \in 1 .. Len(curr) |-> curr[Len(curr) + 1 - i]]}

\* The server encodes the grid against a previous grid and sends the frame.
SendInter ==
  /\ codec.op = "none"
  /\ \E prev \in PreviousGrids(codec.grid) :
       codec' = [op |-> "interSent", grid |-> codec.grid, prev |-> prev,
                 delta |-> InterEncode(prev, codec.grid)]
  /\ UNCHANGED << sent, readers, calc, server, mainPc, netPc, pipe, swapOnRead, token,
                  gridSize, cellSize, bathymetrySize, elevationRange, live,
                  bathymetry, waterLevel, snowHeight, currentBuffer,
                  newBuffer, buffer, lockedIndex, mostRecentIndex, nextIndex,
                  connected, listener, gridVersion, textureVersion,
                  ctorError, updates, update, hist >>

\* The client decodes the frame against its copy of the previous grid.
ReceiveInter ==
  /\ codec.op = "interSent"
  /\ codec' = [op |-> "interDecoded", grid |-> codec.grid, prev |-> codec.prev,
               delta |-> codec.delta,
               decoded |-> InterDecode(codec.prev, codec.delta)]
  /\ UNCHANGED << sent, readers, calc, server, mainPc, netPc, pipe, swapOnRead, token,
                  gridSize, cellSize, bathymetrySize, elevationRange, live,
                  bathymetry, waterLevel, snowHeight, currentBuffer,
                  newBuffer, buffer, lockedIndex, mostRecentIndex, nextIndex,
                  connected, listener, gridVersion, textureVersion,
                  ctorError, updates, update, hist >>

CodecNext ==
  \/ SendIntra
  \/ ReceiveIntra
  \/ SendInter
  \/ ReceiveInter

CodecSpec == CodecInit /\ [][CodecNext]_vars

(***************************************************************************)
(* The end-to-end scenario: a 4 x 3 sandbox with elevations from 0 to 10   *)
(* whose initial bathymetry grid has the pixel 32767 at (1, 1).  The       *)
(* server has sent the initial frame intra-coded, the client has decoded,  *)
(* un-quantized and posted it, and the consumer has locked it.             *)
(***************************************************************************)
ScenarioGeometry ==
  [gridSize |-> <<4, 3>>, cellSize |-> <<1, 1>>, elevationRange |-> <<0, 10>>]

\* The pixel of the scenario and its place in the 3 x 2 bathymetry grid.
ScenarioPixel == (PixelMax - 1) \div 2
ScenarioIndex == 1 * (ScenarioGeometry.gridSize[1] - 1) + 1 + 1

\* The initial bathymetry grids of the scenario: the pixel at (1, 1), any
\* one of the codec's pixel values everywhere else.
ScenarioGrids ==
  { [i \in 1 .. GridLen("bathymetry", ScenarioGeometry.gridSize) |->
       IF i = ScenarioIndex THEN ScenarioPixel ELSE p] : p \in CodecPixels }

\* The servers of the scenario; the bathymetry entry of the initial frame is
\* the pixel at (1, 1).
ScenarioServers ==
  { [ reply |-> WireBytes(TOKEN, FALSE), bigEndian |-> FALSE,
      geometry |-> ScenarioGeometry,
      initial |-> [bathymetry |-> ScenarioPixel, waterLevel |-> w, snowHeight |-> 0] ] :
      w \in {0, PixelMax} }

ScenarioInit ==
  /\ server \in ScenarioServers
  /\ update = NoUpdate
  /\ \E grid \in ScenarioGrids :
       LET geo == ScenarioGeometry
           first == [g \in Grids |->
                       IntraDecode(IntraEncode(
                         IF g = "bathymetry" THEN grid
                         ELSE IntraGrid(server.initial[g], GridLen(g, geo.gridSize))))]
       IN  /\ gridSize = geo.gridSize
           /\ cellSize = geo.cellSize
           /\ bathymetrySize = <<geo.gridSize[1] - 1, geo.gridSize[2] - 1>>
           /\ elevationRange = geo.elevationRange
           /\ bathymetry = [i \in 0 .. (NumQuantized - 1) |->
                              IF i = 0 THEN first["bathymetry"]
                              ELSE FreshArray(GridLen("bathymetry", geo.gridSize))]
           /\ waterLevel = [i \in 0 .. (NumQuantized - 1) |->
                              IF i = 0 THEN first["waterLevel"]
                              ELSE FreshArray(GridLen("waterLevel", geo.gridSize))]
           /\ snowHeight = [i \in 0 .. (NumQuantized - 1) |->
                              IF i = 0 THEN first["snowHeight"]
                              ELSE FreshArray(GridLen("snowHeight", geo.gridSize))]
           /\ buffer = [s \in Slots |->
                          [g \in Grids |->
                             IF s = StartNewValue(0, 0)
                               THEN Unquantize(first[g], geo.elevationRange)
                               ELSE FreshArray(GridLen(g, geo.gridSize))]]
  /\ mainPc = "queryWaterLevel"
  /\ netPc = "idle"
  /\ pipe = "open"
  /\ swapOnRead = FALSE
  /\ token = TOKEN
  /\ live = FirstAllocated(Len(AllocOrder))
  /\ currentBuffer = 0
  /\ newBuffer = 0
  /\ lockedIndex = StartNewValue(0, 0)
  /\ mostRecentIndex = StartNewValue(0, 0)
  /\ nextIndex = StartNewValue(0, 0)
  /\ connected = TRUE
  /\ listener = TRUE
  /\ gridVersion = 1
  /\ textureVersion = 0
  /\ ctorError = "none"
  /\ updates = 0
  /\ \E x \in Coordinates(1), y \in Coordinates(2) :
       calc = [fn |-> "none", x |-> x, y |-> y]
  /\ codec = NoCodec
  /\ readers = InitReaders
  /\ sent = NoneSent
  /\ hist = InitHist

ScenarioSpec == ScenarioInit /\ [][QueryNext]_vars

(***************************************************************************)
(* The RemoteClient used by more than one reader: once the session         *)
(* streams, each reader thread calls lockNewGrids and then reads the       *)
(* bathymetry, water level and snow height grid through                    *)
(* grids.getLockedValue(), as calcBathymetry, getBathymetryGrid and their  *)
(* siblings do; the network thread decodes and posts updates meanwhile.    *)
(***************************************************************************)
\* What a reader does after reading grid g.
AfterRead(g) ==
  CASE g = "bathymetry" -> "waterLevel"
    [] g = "waterLevel" -> "snowHeight"
    [] g = "snowHeight" -> "lock"

\* RemoteClient::lockNewGrids called by reader r.  The triple buffer has one
\* locked slot, whoever calls.
ReaderLock(r) ==
  /\ mainPc = "frame"
  /\ readers[r].pc = "lock"
  /\ LET res == LockNewValue(lockedIndex, mostRecentIndex)
     IN  /\ lockedIndex' = res.index
         /\ readers' = [q \in Readers |->
                          IF q = r
                            THEN [pc |-> "bathymetry", slot |-> res.index,
                                  seen |-> {}, seenSinceAnyLock |-> {}]
                            ELSE [readers[q] EXCEPT !.seenSinceAnyLock = {}]]
  /\ UNCHANGED << sent, codec, calc, server, mainPc, netPc, pipe, swapOnRead, token,
                  gridSize, cellSize, bathymetrySize, elevationRange, live,
                  bathymetry, waterLevel, snowHeight, currentBuffer,
                  newBuffer, buffer, mostRecentIndex, nextIndex, connected,
                  listener, gridVersion, textureVersion, ctorError, updates,
                  update, hist >>

\* Reader r reads the grid it has come to through grids.getLockedValue().
ReaderRead(r) ==
  /\ readers[r].pc \in Grids
  /\ LET g == readers[r].pc
         t == hist.tag[lockedIndex][g]
     IN  readers' = [readers EXCEPT ![r].pc = AfterRead(g),
                                    ![r].seen = @ \cup {t},
                                    ![r].seenSinceAnyLock = @ \cup {t}]
  /\ UNCHANGED << sent, codec, calc, server, mainPc, netPc, pipe, swapOnRead, token,
                  gridSize, cellSize, bathymetrySize, elevationRange, live,
                  bathymetry, waterLevel, snowHeight, currentBuffer,
                  newBuffer, buffer, lockedIndex, mostRecentIndex, nextIndex,
                  connected, listener, gridVersion, textureVersion,
                  ctorError, updates, update, hist >>

ReadersNext ==
  \/ Connect
  \/ ReadToken
  \/ ReadGeometry
  \/ Allocate
  \/ IntraBathymetry
  \/ IntraWaterLevel
  \/ IntraSnowHeight
  \/ CtorUnquantize
  \/ SetConnected
  \/ AddListener
  \/ ServerMessageCallback
  \/ DecodeBathymetry
  \/ DecodeWaterLevel
  \/ DecodeSnowHeight
  \/ Flip
  \/ UnquantizeStart
  \/ UnquantizeBathymetry
  \/ UnquantizeWaterLevel
  \/ UnquantizeSnowHeight
  \/ PostNewValue
  \/ CatchDisconnect
  \/ \E r \in Readers : ReaderLock(r)
  \/ \E r \in Readers : ReaderRead(r)

ReadersSpec == Init /\ [][ReadersNext]_vars

(***************************************************************************)
(* The update stream with the server's sends as steps of their own:        *)
(* Threads::EventDispatcher raises readiness events for the pipe's socket  *)
(* and calls serverMessageCallback once per event.                         *)
(***************************************************************************)
\* Faulty variant: an update that arrives while an earlier readiness event
\* is still waiting for its callback raises no event of its own.
ServerSendCoalesced ==
  /\ pipe = "open"
  /\ ctorError = "none"
  /\ sent.triplets < MaxUpdates
  /\ sent' = [triplets |-> sent.triplets + 1,
              events |-> IF updates < sent.events THEN sent.events
                                                  ELSE sent.events + 1]
  /\ UNCHANGED << readers, codec, calc, server, mainPc, netPc, pipe,
                  swapOnRead, token, gridSize, cellSize, bathymetrySize,
                  elevationRange, live, bathymetry, waterLevel, snowHeight,
                  currentBuffer, newBuffer, buffer, lockedIndex,
                  mostRecentIndex, nextIndex, connected, listener,
                  gridVersion, textureVersion, ctorError, updates, update,
                  hist >>

\* The server has a new tick of data and sends one update message; one
\* readiness event corresponds to it.
ServerSend ==
  /\ pipe = "open"
  /\ ctorError = "none"
  /\ sent.triplets < MaxUpdates
  /\ sent' = [triplets |-> sent.triplets + 1, events |-> sent.events + 1]
  /\ UNCHANGED << readers, codec, calc, server, mainPc, netPc, pipe,
                  swapOnRead, token, gridSize, cellSize, bathymetrySize,
                  elevationRange, live, bathymetry, waterLevel, snowHeight,
                  currentBuffer, newBuffer, buffer, lockedIndex,
                  mostRecentIndex, nextIndex, connected, listener,
                  gridVersion, textureVersion, ctorError, updates, update,
                  hist >>

\* The dispatcher's thread delivers the next readiness event to the
\* listener registered at line 1113.
ReadinessCallback ==
  /\ updates < sent.events
  /\ ServerMessageCallback

\* SandboxClient's constructor up to the registration of the listener.
ConstructorStep ==
  \/ Connect
  \/ ReadToken
  \/ ReadGeometry
  \/ Allocate
  \/ IntraBathymetry
  \/ IntraWaterLevel
  \/ IntraSnowHeight
  \/ CtorUnquantize
  \/ SetConnected
  \/ AddListener

\* The steps of processUpdate after the callback has begun.
ProcessUpdateStep ==
  \/ DecodeBathymetry
  \/ DecodeWaterLevel
  \/ DecodeSnowHeight
  \/ Flip
  \/ UnquantizeStart
  \/ UnquantizeBathymetry
  \/ UnquantizeWaterLevel
  \/ UnquantizeSnowHeight
  \/ PostNewValue
  \/ CatchDisconnect

\* The steps of the dispatcher's thread.
NetworkStep ==
  \/ ReadinessCallback
  \/ ProcessUpdateStep

\* The main thread's frames, here those with the head outside the
\* bathymetry domain and with nothing to upload: the queries and the uploads
\* read the locked slot and touch neither the pipe nor the buffer's indices.
FrameStep ==
  \/ FrameLock /\ mainPc' = "checkConnected"
  \/ CheckConnected
  \/ SendViewer
  \/ Display /\ mainPc' = "frame"

StreamNext ==
  \/ ServerSend
  \/ ConstructorStep
  \/ NetworkStep
  \/ FrameStep

\* The constructor is straight-line code of the running main thread, and
\* the dispatcher's thread, started at line 1114, runs whenever it has an
\* event or is inside a callback.  Frames are processed only when Vrui is
\* asked for one, so the main thread's frames get no fairness.
StreamSpec ==
  /\ Init
  /\ [][StreamNext]_vars
  /\ WF_vars(ConstructorStep)
  /\ WF_vars(NetworkStep)

(***************************************************************************)
(* The main thread's other callbacks: SandboxClient::resetNavigation and   *)
(* SandboxClient::alignSurfaceFrame, called by Vrui between frames.        *)
(***************************************************************************)
\* Faulty variant: resetNavigation evaluates the bathymetry without locking
\* the most recent grids first.
ResetNavigationWithoutLock ==
  /\ mainPc = "frame"
  /\ mainPc' = "resetQuery"
  /\ hist' = hist
  /\ UNCHANGED << sent, readers, codec, calc, server, netPc, pipe, swapOnRead, token, gridSize, cellSize,
                  bathymetrySize, elevationRange, live, bathymetry,
                  waterLevel, snowHeight, currentBuffer, newBuffer, buffer,
                  lockedIndex, mostRecentIndex, nextIndex, connected,
                  listener, gridVersion, textureVersion, ctorError, updates,
                  update >>

\* Lines 1376-1378 of resetNavigation: lockNewGrids and the grid version.
ResetNavigationLock ==
  /\ mainPc = "frame"
  /\ LET r == LockNewValue(lockedIndex, mostRecentIndex)
     IN  /\ lockedIndex' = r.index
         /\ gridVersion' = IF r.isNew THEN gridVersion + 1 ELSE gridVersion
         /\ hist' = [hist EXCEPT !.seen = IF r.isNew THEN {} ELSE @,
                                 !.postedSinceLock = FALSE,
                                 !.lockResult = IF r.isNew THEN "new" ELSE "same"]
  /\ mainPc' = "resetQuery"
  /\ UNCHANGED << sent, readers, codec, calc, server, netPc, pipe, swapOnRead, token, gridSize, cellSize,
                  bathymetrySize, elevationRange, live, bathymetry,
                  waterLevel, snowHeight, currentBuffer, newBuffer, buffer,
                  mostRecentIndex, nextIndex, connected, listener,
                  textureVersion, ctorError, updates, update >>

\* Line 1382: calcBathymetry at the centre of the bathymetry domain.
ResetNavigationQuery ==
  /\ mainPc = "resetQuery"
  /\ hist' = [hist EXCEPT !.seen = Observe(@, "bathymetry")]
  /\ mainPc' = "frame"
  /\ UNCHANGED << sent, readers, codec, calc, server, netPc, pipe, swapOnRead, token, gridSize, cellSize,
                  bathymetrySize, elevationRange, live, bathymetry,
                  waterLevel, snowHeight, currentBuffer, newBuffer, buffer,
                  lockedIndex, mostRecentIndex, nextIndex, connected,
                  listener, gridVersion, textureVersion, ctorError, updates,
                  update >>

\* Line 583: calcBathymetry at the base point of a surface navigation
\* tool's frame.  A tool in use belongs to a cycle of the consumer, which
\* locks the latest triplet and then queries it; gridVersion counts the
\* locks that found new grids.
AlignSurfaceFrame ==
  /\ mainPc = "frame"
  /\ gridVersion > 0
  /\ hist' = [hist EXCEPT !.seen = Observe(@, "bathymetry")]
  /\ mainPc' = "frame"
  /\ UNCHANGED << sent, readers, codec, calc, server, netPc, pipe, swapOnRead, token, gridSize, cellSize,
                  bathymetrySize, elevationRange, live, bathymetry,
                  waterLevel, snowHeight, currentBuffer, newBuffer, buffer,
                  lockedIndex, mostRecentIndex, nextIndex, connected,
                  listener, gridVersion, textureVersion, ctorError, updates,
                  update >>

\* An update taken up while the main thread is still on its way to its
\* first cycles.
EarlyCallback ==
  /\ updates < MaxEarlyUpdates
  /\ ServerMessageCallback

CallbackNext ==
  \/ ConstructorStep
  \/ EarlyCallback
  \/ ProcessUpdateStep
  \/ ResetNavigationLock
  \/ ResetNavigationQuery
  \/ AlignSurfaceFrame
  \/ FrameLock
  \/ QueryWaterLevel
  \/ QueryBathymetry
  \/ QuerySnowHeight
  \/ CheckConnected
  \/ SendViewer
  \/ Display
  \/ UploadBathymetry
  \/ UploadWaterLevel
  \/ UploadSnowHeight

CallbackSpec == Init /\ [][CallbackNext]_vars

(***************************************************************************)
(* Properties.                                                             *)
(***************************************************************************)
Filling == {"unquantizeBathymetry", "unquantizeWaterLevel",
            "unquantizeSnowHeight", "post"}

\* The step in which frame() calls lockNewGrids.
FrameLockTaken ==
  mainPc = "frame" /\ mainPc' \in {"queryWaterLevel", "checkConnected"}

Quantized(g) ==
  CASE g = "bathymetry" -> bathymetry
    [] g = "waterLevel" -> waterLevel
    [] g = "snowHeight" -> snowHeight

\* C1: the three grids of the locked slot always carry the data of one and
\* the same publish, and everything the reader has read through the locked
\* value since it locked comes from that one publish, whatever the network
\* thread is doing in unquantizeGrids meanwhile.
NoTornTriplet ==
  /\ \A g1, g2 \in Grids :
       hist.tag[lockedIndex][g1] = hist.tag[lockedIndex][g2]
  /\ \A t \in hist.seen : \A g \in Grids : hist.tag[lockedIndex][g] = t

\* The reader has read two grids of its triplet and is about to read the
\* third while the network thread is in the middle of filling a slot.
NoTornTripletWitness ==
  /\ mainPc = "querySnowHeight"
  /\ netPc = "unquantizeWaterLevel"
  /\ gridVersion >= 2
  /\ hist.seen = {hist.pubCount - 1}

\* C2: once the reader has locked, a step that leaves lockedIndex alone
\* leaves the contents of the locked slot alone, until the client itself is
\* destroyed; and a lockNewGrids call with no post since the previous call
\* returns false and keeps the slot.
LockedTripletStable ==
  [][ /\ (hist.lockResult # "none" /\ lockedIndex' = lockedIndex
          /\ mainPc' # "destroyed")
         => /\ buffer'[lockedIndex] = buffer[lockedIndex]
            /\ hist'.tag[lockedIndex] = hist.tag[lockedIndex]
      /\ (FrameLockTaken /\ ~hist.postedSinceLock)
         => /\ hist'.lockResult = "same"
            /\ lockedIndex' = lockedIndex
            /\ buffer'[lockedIndex'] = buffer[lockedIndex]
    ]_vars

\* The reader still holds and has read the first triplet it locked after
\* the network thread has posted two further updates.
LockedTripletStableWitness ==
  /\ gridVersion = 1
  /\ hist.seen = {1}
  /\ hist.pubCount = 3
  /\ netPc = "idle"
  /\ hist.outcome = "ok"

\* C3: while unquantizeGrids is between startNewValue and postNewValue, the
\* slot it fills is not the slot the reader has locked.
WriterSlotNotLocked ==
  netPc \in Filling => nextIndex # lockedIndex

\* The network thread fills a slot for the second update while the reader
\* holds the slot of the first update, the most recent post.
WriterSlotNotLockedWitness ==
  /\ netPc = "unquantizeSnowHeight"
  /\ updates = 2
  /\ hist.lockResult = "new"
  /\ lockedIndex = mostRecentIndex
  /\ gridVersion = 2

\* C4: every inter-frame decode is handed, as previous grid, the grid the
\* last successful decode of that grid produced (the intra-decoded grid the
\* first time), and once processUpdate has advanced currentBuffer the grids
\* at currentBuffer are the newly decoded ones.
PreviousGridInLockStep ==
  /\ \A g \in Grids : hist.handedPrev[g] = hist.expectedPrev[g]
  /\ (netPc \in ({"unquantizeStart"} \cup Filling)
        \/ (netPc = "idle" /\ hist.outcome = "ok"))
     => \A g \in Grids : Quantized(g)[currentBuffer] = hist.lastDecoded[g]

\* The second update was decoded against the grids of the first, which
\* differ from the grids it produced.
PreviousGridInLockStepWitness ==
  /\ updates = 2
  /\ netPc = "idle"
  /\ hist.outcome = "ok"
  /\ hist.handedPrev["waterLevel"] # hist.lastDecoded["waterLevel"]
  /\ hist.handedPrev["waterLevel"] # IntraGrid(server.initial.waterLevel,
                                               Len(hist.handedPrev["waterLevel"]))

\* C5: once the reply to the token has been read, a reply equal to the
\* token leaves swap-on-read off, the byte-swapped token turns it on for
\* the rest of the session (and the geometry is then read un-swapped), and
\* any other reply makes the constructor fail with no geometry or frame read.
HandshakeByteOrder ==
  hist.tokenRead =>
    /\ token = TOKEN => ~swapOnRead
    /\ token = SWAPPED_TOKEN => swapOnRead
    /\ token \notin {TOKEN, SWAPPED_TOKEN}
         => /\ mainPc = "failed"
            /\ ctorError = "runtime_error"
            /\ hist.readsAfterToken = 0
            /\ gridSize = <<0, 0>>
            /\ live = {}
    /\ (token \in {TOKEN, SWAPPED_TOKEN}
        /\ mainPc \notin {"geometry", "failed"})
         => /\ gridSize = server.geometry.gridSize
            /\ elevationRange = server.geometry.elevationRange

\* A session with a server of the other byte order reached streaming and
\* decoded an update with swap-on-read enabled.
HandshakeByteOrderWitness ==
  /\ token = SWAPPED_TOKEN
  /\ server.bigEndian
  /\ swapOnRead
  /\ hist.outcome = "ok"

\* C6: whenever construction has failed, the pipe has been released, every
\* buffer allocated so far has been released, and SandboxClient has neither
\* set connected nor added the I/O listener.
ConstructorFailureReleasesAll ==
  mainPc = "failed"
    => /\ pipe # "open"
       /\ live = {}
       /\ ~connected
       /\ ~listener

\* C7: after a decode inside processUpdate has failed, and for as long as
\* the client exists, nothing has been posted, currentBuffer and the
\* quantized grids at currentBuffer are as they were when processUpdate
\* began, and so are all three slots of the triple buffer and the index of
\* the most recent post.
FailedDecodePublishesNothing ==
  ((netPc = "catch" \/ hist.outcome = "failed") /\ mainPc # "destroyed")
    => /\ hist.posts = 0
       /\ hist.flips = 0
       /\ currentBuffer = hist.snap.currentBuffer
       /\ bathymetry[currentBuffer] = hist.snap.bathymetry
       /\ waterLevel[currentBuffer] = hist.snap.waterLevel
       /\ snowHeight[currentBuffer] = hist.snap.snowHeight
       /\ mostRecentIndex = hist.snap.mostRecentIndex
       /\ buffer = hist.snap.buffer

\* The snow height decode of the second update failed after the bathymetry
\* and water level decodes had written new grids, and the reader has since
\* locked and read what was last posted.
FailedDecodePublishesNothingWitness ==
  /\ hist.outcome = "failed"
  /\ updates = 2
  /\ hist.decoded = <<"bathymetry", "waterLevel">>
  /\ waterLevel[1 - currentBuffer] # waterLevel[currentBuffer]
  /\ snowHeight[1 - currentBuffer] # hist.snap.snowHeight
  /\ hist.seen = {hist.pubCount}
  /\ gridVersion = 2

\* C8, as claimed: once processUpdate has failed and the callback has
\* handled it, the listener stays removed, connected stays false, the
\* network thread takes no further step and no sendViewer is executed.
NoSendAfterUpdateFailure ==
  [][ hist.outcome = "failed"
        => /\ ~listener'
           /\ ~connected'
           /\ netPc' \in {"idle", "stopped"}
           /\ ~(mainPc = "sendViewer" /\ mainPc' = "display")
    ]_vars

\* C8, amended: as above, except that the frame which had already passed its
\* test of connected when the flag was cleared still executes its one
\* sendViewer; no test of connected made after the failure leads to a send.
NoNewSendAfterUpdateFailure ==
  [][ hist.outcome = "failed"
        => /\ ~listener'
           /\ ~connected'
           /\ netPc' \in {"idle", "stopped"}
           /\ updates' = updates
           /\ ~(mainPc = "checkConnected" /\ mainPc' = "sendViewer")
           /\ hist'.sendsAfterFail <= 1
    ]_vars

\* After a failed update the consumer has executed the one sendViewer that
\* was already under way and has, in a later frame, found connected false.
NoNewSendAfterUpdateFailureWitness ==
  /\ hist.outcome = "failed"
  /\ hist.sendsAfterFail = 1
  /\ hist.checkedAfterDisconnect
  /\ updates < MaxUpdates

\* C9: once a sendViewer has failed, the readiness callback takes up no
\* further update message and no further sendViewer is executed.
SendFailureEndsSession ==
  [][ hist.sendFailed
        => /\ ~(netPc = "idle" /\ netPc' = "decodeBathymetry")
           /\ ~(mainPc = "sendViewer" /\ mainPc' = "display")
    ]_vars

\* C10: a callback that has succeeded has decoded bathymetry, water level
\* and snow height once each in that order, advanced currentBuffer once and
\* posted once; at no point of a callback has it done more than that.
OneTripletPerCallback ==
  /\ hist.outcome \in {"running", "ok", "failed"}
       => /\ \E n \in 0 .. 3 :
               hist.decoded = SubSeq(<<"bathymetry", "waterLevel", "snowHeight">>, 1, n)
          /\ hist.flips <= 1
          /\ hist.posts <= 1
  /\ (hist.outcome = "ok" /\ mainPc # "destroyed")
       => /\ netPc \in {"idle", "stopped"}
          /\ hist.decoded = <<"bathymetry", "waterLevel", "snowHeight">>
          /\ hist.flips = 1
          /\ hist.posts = 1
          /\ currentBuffer = 1 - hist.snap.currentBuffer
          /\ mostRecentIndex # hist.snap.mostRecentIndex
          /\ \A g \in Grids : hist.tag[mostRecentIndex][g] = hist.pubCount

\* Two callbacks have run to completion, each publishing one triplet.
OneTripletPerCallbackWitness ==
  /\ hist.outcome = "ok"
  /\ updates = 2
  /\ hist.pubCount = 3
  /\ netPc = "idle"

\* The phases of a session, by the position of the main thread: connecting,
\* handshake sent, geometry exchange, initial frame, constructed, streaming.
PhaseIndex(pc) ==
  CASE pc = "connect" -> 0
    [] pc = "token" -> 1
    [] pc = "geometry" -> 2
    [] pc \in {"alloc", "intraBathymetry", "intraWaterLevel",
               "intraSnowHeight", "unquantize"} -> 3
    [] pc \in {"constructed", "listen"} -> 4
    [] pc \in Streaming -> 5
    [] OTHER -> 6

\* C11: the main thread moves through the phases one at a time and in
\* order; the intra-frame decoder is used at most once per grid, in the
\* order bathymetry, water level, snow height, and only in the initial-frame
\* phase; every later change of a quantized grid, short of the destruction
\* of the client, is made by the inter-frame decoder; and the network thread starts a processUpdate only when the
\* constructor has decoded all three initial grids and posted them.
SessionPhasesInOrder ==
  [][ /\ (mainPc' # mainPc /\ mainPc' # "failed")
           => PhaseIndex(mainPc') \in {PhaseIndex(mainPc), PhaseIndex(mainPc) + 1}
      /\ mainPc = "failed" => mainPc' = "failed"
      /\ \A g \in Grids : hist'.intra[g] <= 1
      /\ hist'.intra # hist.intra
           => /\ PhaseIndex(mainPc) = 3
              /\ hist'.intra["waterLevel"] <= hist'.intra["bathymetry"]
              /\ hist'.intra["snowHeight"] <= hist'.intra["waterLevel"]
              /\ hist'.inter = hist.inter
      /\ (PhaseIndex(mainPc) >= 4 /\ mainPc' # "destroyed"
          /\ <<bathymetry, waterLevel, snowHeight>>' # <<bathymetry, waterLevel, snowHeight>>)
           => /\ hist'.inter # hist.inter
              /\ hist'.intra = hist.intra
      /\ (netPc' \notin {"idle", "stopped"} \/ netPc \notin {"idle", "stopped"}
          \/ hist'.inter # hist.inter)
           => /\ mainPc \in (Streaming \cup {"joinThread"})
              /\ \A g \in Grids : hist.intra[g] = 1
              /\ hist.pubCount >= 1
              /\ \A g \in Grids : hist.tag[mostRecentIndex][g] >= 1
    ]_vars

\* A session that went through every phase and then decoded two updates.
SessionPhasesInOrderWitness ==
  /\ mainPc \in Streaming
  /\ updates = 2
  /\ \A g \in Grids : hist.intra[g] = 1 /\ hist.inter[g] = 2
  /\ hist.outcome = "ok"


\* C12: while the constructor runs the network thread does nothing; when
\* the constructor has returned, and until streaming begins, the three
\* initial grids have been decoded in the order bathymetry, water level,
\* snow height with (W-1) x (H-1), W x H and W x H samples, and the most
\* recently posted slot holds exactly the un-quantized initial grids; and
\* the session is marked connected or listens only after that post.
InitialTripletComplete ==
  /\ PhaseIndex(mainPc) <= 4 => (netPc = "idle" /\ updates = 0)
  /\ mainPc \in {"constructed", "listen"}
       => /\ hist.decoded = <<"bathymetry", "waterLevel", "snowHeight">>
          /\ currentBuffer = 0
          /\ hist.pubCount = 1
          /\ \A g \in Grids :
               /\ Len(Quantized(g)[currentBuffer]) = GridLen(g, server.geometry.gridSize)
               /\ Quantized(g)[currentBuffer] =
                    IntraGrid(server.initial[g], GridLen(g, server.geometry.gridSize))
               /\ buffer[mostRecentIndex][g] =
                    Unquantize(IntraGrid(server.initial[g],
                                         GridLen(g, server.geometry.gridSize)),
                               server.geometry.elevationRange)
               /\ hist.tag[mostRecentIndex][g] = 1
  /\ (connected \/ listener)
       => /\ hist.pubCount >= 1
          /\ \A g \in Grids : hist.intra[g] = 1

\* The constructor has returned with the initial grids of a 3 x 2 sandbox
\* whose terrain is at the top of the elevation range.
InitialTripletCompleteWitness ==
  /\ mainPc = "constructed"
  /\ gridSize = <<3, 2>>
  /\ server.initial.bathymetry = PixelMax
  /\ Len(buffer[mostRecentIndex]["bathymetry"]) = 2
  /\ Len(buffer[mostRecentIndex]["waterLevel"]) = 6
  /\ buffer[mostRecentIndex]["bathymetry"][1] = PixelMax * elevationRange[2]


\* C13: a lockNewGrids call reports a new triplet exactly when a triplet
\* has been posted since the previous call (since construction, for the
\* first call); it then locks the slot of the latest post, whatever the
\* number of posts in between, and bumps gridVersion; and the publish the
\* reader holds after a call is never older than the one it held before.
LockTakesLatestPost ==
  [][ FrameLockTaken
        => /\ (hist'.lockResult = "new") <=> hist.postedSinceLock
           /\ hist'.lockResult \in {"new", "same"}
           /\ lockedIndex' = mostRecentIndex
           /\ \A g \in Grids :
                /\ hist'.tag[lockedIndex'][g] = hist.lastPosted
                /\ hist'.tag[lockedIndex'][g] >= hist.tag[lockedIndex][g]
           /\ hist.postedSinceLock
                => /\ gridVersion' = gridVersion + 1
                   /\ \A g \in Grids :
                        hist'.tag[lockedIndex'][g] > hist.tag[lockedIndex][g]
           /\ ~hist.postedSinceLock
                => /\ gridVersion' = gridVersion
                   /\ lockedIndex' = lockedIndex
    ]_vars

\* The reader held the initial triplet while two updates were posted, and
\* its second lock took it straight to the third publish.
LockTakesLatestPostWitness ==
  /\ hist.lockResult = "new"
  /\ gridVersion = 2
  /\ hist.tag[lockedIndex]["snowHeight"] = 3
  /\ mainPc \in {"queryWaterLevel", "checkConnected"}


StencilInsideGrid ==
  calc.fn # "none"
    => /\ calc.gx \in 0 .. (QuerySize(calc.fn)[1] - 2)
       /\ calc.gy \in 0 .. (QuerySize(calc.fn)[2] - 2)
       /\ \A i \in calc.reads :
            i \in 0 .. (Len(buffer[lockedIndex][calc.fn]) - 1)


\* The coordinate of sample i of grid fn along an axis: the domain begins at
\* the first sample and samples are one cell size apart.
SampleCoordinate(fn, axis, i) == DomainMin(fn, axis) + 2 * i * cellSize[axis]

\* The locked grid a query reads.
LockedGrid(fn) == buffer[lockedIndex][fn]

NearestInDomain(fn, axis, p) ==
  [ far |-> FALSE,
    n |-> IF p.far THEN DomainMax(fn, axis)
          ELSE Clamp(p.n, DomainMin(fn, axis), DomainMax(fn, axis)) ]

\* C17: on a grid with at least two samples per axis, a query evaluated at
\* any position used weights within [0, 1] and returned what the query at
\* the nearest point of the grid's domain returns.
OutsideQueryEqualsBoundary ==
  (calc.fn # "none" /\ QuerySize(calc.fn)[1] >= 2 /\ QuerySize(calc.fn)[2] >= 2)
    => /\ calc.wx \in 0 .. (2 * cellSize[1])
       /\ calc.wy \in 0 .. (2 * cellSize[2])
       /\ calc.value =
            Calc(calc.fn, LockedGrid(calc.fn),
                 NearestInDomain(calc.fn, 1, calc.x),
                 NearestInDomain(calc.fn, 2, calc.y), 0, 0).value


\* C18: the RemoteClient is deleted only when the network thread has
\* terminated: in every step in which the main thread is at or past the
\* delete, the network thread is stopped and stays stopped; and whenever
\* the network thread is inside a callback, every quantized buffer and
\* every slot array is still allocated.
TeardownAfterNetworkStops ==
  [][ /\ (mainPc \in {"deleteRemoteClient", "destroyed"}
          \/ mainPc' \in {"deleteRemoteClient", "destroyed"})
           => (netPc = "stopped" /\ netPc' = "stopped")
      /\ live' # live
           => (netPc \in {"idle", "stopped"} /\ netPc' = netPc)
      /\ netPc' \notin {"idle", "stopped"}
           => /\ (QuantizedArrays \cup SlotArrays) \subseteq live'
              /\ mainPc' \in (Streaming \cup {"joinThread"})
    ]_vars

\* The application was torn down while a callback was decoding the second
\* update; the callback ran to completion before the buffers were released.
TeardownAfterNetworkStopsWitness ==
  /\ mainPc = "destroyed"
  /\ hist.stoppedBusy
  /\ updates = 2
  /\ hist.outcome = "ok"
  /\ live = {}


\* C19: once the constructor has read the geometry, no step changes
\* gridSize, cellSize, elevationRange or bathymetrySize, whichever thread
\* takes it; they are the values the server sent, and bathymetrySize is
\* gridSize less one on both axes.
GeometryFixed ==
  [][ mainPc \notin {"connect", "token", "geometry", "failed"}
        => /\ UNCHANGED <<gridSize, cellSize, elevationRange, bathymetrySize>>
           /\ gridSize = server.geometry.gridSize
           /\ cellSize = server.geometry.cellSize
           /\ elevationRange = server.geometry.elevationRange
           /\ \A i \in 1 .. 2 : bathymetrySize[i] = gridSize[i] - 1
    ]_vars

\* A 3 x 2 session in which two updates were decoded and posted and the
\* consumer locked the latest one, queried it and sent its pose.
GeometryFixedWitness ==
  /\ mainPc = "display"
  /\ updates = 2
  /\ hist.outcome = "ok"
  /\ gridVersion = 2
  /\ hist.seen # {}
  /\ connected
  /\ gridSize = <<3, 2>>
  /\ bathymetrySize = <<2, 1>>


UpdateGrid(g) ==
  InterDecode(hist.snap[g], DeltaGrid(update[g], Len(hist.snap[g])))

Elevation5Plus(d) == 5 * PixelMax * 1000 + (d * PixelMax) \div 10000

\* v is the elevation 5 + d / 10^7 to within 10^-6, which is more than the
\* rounding of a float of that size.
NearElevation5Plus(v, d) ==
  LET diff == v * 1000 - Elevation5Plus(d)
  IN  diff <= PixelMax \div 1000 + 1 /\ 0 - diff <= PixelMax \div 1000 + 1

\* The locked bathymetry sample at (1, 1).
ScenarioSample == LockedGrid("bathymetry")[ScenarioIndex]

\* calcBathymetry was evaluated at the world coordinate of sample (1, 1).
ScenarioQueried ==
  /\ calc.fn = "bathymetry"
  /\ ~calc.x.far
  /\ ~calc.y.far
  /\ calc.x.n = SampleCoordinate("bathymetry", 1, 1)
  /\ calc.y.n = SampleCoordinate("bathymetry", 2, 1)

\* The query result is within (max - min) / 65535 of 5.  (The result is a
\* numerator over 4 * cellSize[0] * cellSize[1], in units of 1/65535.)
ScenarioQueryNearFive ==
  LET scale == 4 * cellSize[1] * cellSize[2]
      diff == calc.value - 5 * PixelMax * scale
      bound == (elevationRange[2] - elevationRange[1]) * scale
  IN  calc.inside /\ diff <= bound /\ 0 - diff <= bound

\* C23, as claimed: in the scenario the un-quantized sample at (1, 1) is
\* 5.0000076, and calcBathymetry at its world coordinate returns a value
\* within (max - min) / 65535 of 5.
ScenarioAsClaimed ==
  /\ NearElevation5Plus(ScenarioSample, 76)
  /\ ScenarioQueried => ScenarioQueryNearFive

\* C23, amended: in the scenario the un-quantized sample at (1, 1) is
\* 32767 * 10 / 65535 = 4.9999237, and calcBathymetry at its world
\* coordinate returns exactly that sample, which is within
\* (max - min) / 65535 of 5.
ScenarioSampleBelowFive ==
  /\ ScenarioSample = ScenarioPixel * (elevationRange[2] - elevationRange[1])
                        + PixelMax * elevationRange[1]
  /\ NearElevation5Plus(ScenarioSample, 0 - 763)
  /\ ScenarioQueried
       => /\ ScenarioQueryNearFive
          /\ calc.value = 4 * cellSize[1] * cellSize[2] * ScenarioSample

\* calcBathymetry was evaluated at the coordinate of sample (1, 1), in the
\* last row of a bathymetry grid whose other samples are at the top of the
\* elevation range.
ScenarioSampleBelowFiveWitness ==
  /\ ScenarioQueried
  /\ gridSize = <<4, 3>>
  /\ bathymetry[currentBuffer][ScenarioIndex] = ScenarioPixel
  /\ bathymetry[currentBuffer][ScenarioIndex - 1] = PixelMax
  /\ calc.gx = 1
  /\ calc.gy = 0
  /\ calc.wy = 2 * cellSize[2]


\* A grid of the other sample placement than grid fn.
OtherPlacement(fn) == IF fn = "bathymetry" THEN "waterLevel" ELSE "bathymetry"

\* What the query of the grid of the other placement computes at the
\* position of the query evaluated last.
OtherCalc ==
  Calc(OtherPlacement(calc.fn), LockedGrid(OtherPlacement(calc.fn)),
       calc.x, calc.y, 0, 0)

\* The grid coordinates of the two placements at the position queried are
\* k / (2 * cellSize) cells apart on each axis, the bathymetry coordinate
\* being the smaller.
CoordinatesApart(k) ==
  LET b == IF calc.fn = "bathymetry" THEN calc ELSE OtherCalc
      w == IF calc.fn = "bathymetry" THEN OtherCalc ELSE calc
  IN  /\ w.dx - b.dx = k[1]
      /\ w.dy - b.dy = k[2]

\* C24, as claimed: for the same position, the grid coordinate computed by
\* calcBathymetry differs from the one computed by calcWaterLevel and
\* calcSnowHeight by exactly one cell on each axis.
GridCoordinatesOneCellApart ==
  (calc.fn # "none" /\ ~calc.x.far /\ ~calc.y.far)
    => CoordinatesApart(<<2 * cellSize[1], 2 * cellSize[2]>>)

\* C24, amended: for the same position, the grid coordinate computed by
\* calcBathymetry (x / cellSize - 1) is exactly half a cell less than the
\* one computed by calcWaterLevel and calcSnowHeight (x / cellSize - 0.5) on
\* each axis, so the cell indices differ by at most one; the two
\* cell-centered grids use the same coordinate; and the domains agree with
\* it: the first bathymetry sample lies half a cell beyond the first
\* water level sample.
GridCoordinatesHalfCellApart ==
  (calc.fn # "none" /\ ~calc.x.far /\ ~calc.y.far)
    => /\ CoordinatesApart(<<cellSize[1], cellSize[2]>>)
       /\ calc.dx = calc.x.n - CellOffset(calc.fn, cellSize[1])
       /\ calc.dy = calc.y.n - CellOffset(calc.fn, cellSize[2])
       /\ calc.fn # "bathymetry"
            => /\ Calc("waterLevel", LockedGrid("waterLevel"), calc.x, calc.y, 0, 0).dx
                    = Calc("snowHeight", LockedGrid("snowHeight"), calc.x, calc.y, 0, 0).dx
               /\ Calc("waterLevel", LockedGrid("waterLevel"), calc.x, calc.y, 0, 0).dy
                    = Calc("snowHeight", LockedGrid("snowHeight"), calc.x, calc.y, 0, 0).dy
       /\ \A axis \in 1 .. 2 :
            DomainMin("bathymetry", axis) - DomainMin("waterLevel", axis) = cellSize[axis]
       /\ (QuerySize("bathymetry")[1] >= 2 /\ QuerySize("bathymetry")[2] >= 2)
            => /\ OtherCalc.gx - calc.gx \in {0 - 1, 0, 1}
               /\ OtherCalc.gy - calc.gy \in {0 - 1, 0, 1}

\* calcBathymetry was evaluated in the middle of a cell of the bathymetry
\* grid of a 4 x 3 sandbox with cells of 2 x 1, where the water level query
\* finds itself exactly on a sample of the next column.
GridCoordinatesHalfCellApartWitness ==
  /\ calc.fn = "bathymetry"
  /\ gridSize = <<4, 3>>
  /\ ~calc.x.far
  /\ ~calc.y.far
  /\ calc.gx = 1
  /\ calc.wx = cellSize[1]
  /\ OtherCalc.gx = 2
  /\ OtherCalc.wx = 0
  /\ calc.dx = 2 * cellSize[1] + cellSize[1]


\* The step in which unquantizeGrids posts the slot it has filled.
Posted == hist'.lastPosted # hist.lastPosted

\* C25: in every step that posts a triplet, each sample of the posted slot
\* is pixel * (max - min) / 65535 + min of the pixel at the same place of
\* the quantized grid at currentBuffer, with one scale and one offset for
\* bathymetry, water level and snow height; a pixel of 0 has become min and
\* a pixel of 65535 max.  (Samples are numerators over 65535.)
PostedTripletIsAffine ==
  [][ Posted
        => \A g \in Grids :
             LET pixels == Quantized(g)'[currentBuffer']
                 values == buffer'[mostRecentIndex'][g]
             IN  /\ Len(values) = Len(pixels)
                 /\ Len(values) = GridLen(g, gridSize)
                 /\ \A i \in 1 .. Len(pixels) :
                      /\ pixels[i] \in 0 .. PixelMax
                      /\ values[i] = pixels[i] * (elevationRange[2] - elevationRange[1])
                                       + PixelMax * elevationRange[1]
                      /\ pixels[i] = 0 => values[i] = PixelMax * elevationRange[1]
                      /\ pixels[i] = PixelMax => values[i] = PixelMax * elevationRange[2]
    ]_vars

\* The second update of a session whose elevations start at 1 has been
\* posted: its bathymetry is at the top of the range, its water level a few
\* steps above the bottom, and the two quantized water level grids differ.
PostedTripletIsAffineWitness ==
  /\ hist.outcome = "ok"
  /\ netPc = "idle"
  /\ updates = 2
  /\ elevationRange = <<1, 10>>
  /\ bathymetry[currentBuffer][1] = PixelMax
  /\ buffer[mostRecentIndex]["bathymetry"][1] = PixelMax * elevationRange[2]
  /\ waterLevel[currentBuffer][1] = 2
  /\ waterLevel[1 - currentBuffer][1] = 1
  /\ buffer[mostRecentIndex]["waterLevel"][1] = 2 * 9 + PixelMax


PipeIO(pc) ==
  CASE pc \in {"token", "geometry", "intraBathymetry", "intraWaterLevel",
               "intraSnowHeight", "decodeBathymetry", "decodeWaterLevel",
               "decodeSnowHeight"} -> "read"
    [] pc \in {"connect", "sendViewer"} -> "write"
    [] OTHER -> "none"

\* C27: once the constructor has returned, the main thread never reads from
\* the pipe and the network thread never writes to it, and at no time are
\* the two threads both about to read or both about to write.
OneThreadPerDirection ==
  /\ ~ (PipeIO(mainPc) = "read" /\ PipeIO(netPc) = "read")
  /\ ~ (PipeIO(mainPc) = "write" /\ PipeIO(netPc) = "write")
  /\ PipeIO(netPc) # "write"
  /\ (PhaseIndex(mainPc) >= 4) => PipeIO(mainPc) # "read"
  /\ (PipeIO(mainPc) # "none" /\ PhaseIndex(mainPc) < 4) => netPc = "idle"

\* The main thread is about to send the viewer message while the network
\* thread is in the middle of reading an update.
OneThreadPerDirectionWitness ==
  /\ mainPc = "sendViewer"
  /\ netPc = "decodeWaterLevel"
  /\ hist.posts = 0
  /\ updates >= 1

\* The connection is no longer up: the constructor threw, or a
\* processUpdate failed and the callback removed the listener.
ConnectionDown == mainPc = "failed" \/ hist.outcome = "failed"

Decoding == {"decodeBathymetry", "decodeWaterLevel", "decodeSnowHeight"}

\* C29: once the constructor has returned currentBuffer is 0 or 1; it
\* changes only in the step of processUpdate that follows the three
\* decodes, once per update and to the other index; and whenever the
\* inter-frame decoder runs its output buffers are the pair's other
\* buffers, so that the grids it decodes against are left as they are.
CurrentBufferAlternates ==
  [][ /\ (mainPc # "failed" /\ PhaseIndex(mainPc) >= 4)
           => currentBuffer \in 0 .. (NumQuantized - 1)
      /\ (currentBuffer' # currentBuffer)
           => /\ netPc = "flip"
              /\ hist.decoded = <<"bathymetry", "waterLevel", "snowHeight">>
              /\ hist.flips = 0
              /\ currentBuffer' = 1 - currentBuffer
      /\ (netPc = "post" /\ netPc' = "idle") => hist.flips = 1
      /\ (netPc \in Decoding)
           => /\ newBuffer # currentBuffer
              /\ newBuffer \in 0 .. (NumQuantized - 1)
              /\ \A g \in Grids :
                    Quantized(g)'[currentBuffer] = Quantized(g)[currentBuffer]
    ]_vars

\* The second update has been decoded and currentBuffer is back at the
\* index the constructor gave it.
CurrentBufferAlternatesWitness ==
  /\ netPc = "unquantizeStart"
  /\ updates = 2
  /\ hist.flips = 1
  /\ currentBuffer = 0
  /\ newBuffer = 0
  /\ \A g \in Grids : Quantized(g)[0] # Quantized(g)[1]

====
